---- MODULE Spec2Model ----
(***************************************************************************)
(* Chat-log parser of the WhatsApp chat viewer (parseChat and its helpers  *)
(* extractAttachment, getSystemMessageType, getFileType).                  *)
(*                                                                         *)
(* A JavaScript string is a sequence of one-character strings, so that     *)
(* indexOf, substring, trim, split, replace and the regular expressions    *)
(* are computed character by character.  JavaScript indices (colonIndex)   *)
(* are 0-based as in the source; positions inside the helpers are the      *)
(* 1-based positions of Sequences.  null / undefined is the empty tuple    *)
(* Null and a present value x is the one-element tuple Some(x).            *)
(***************************************************************************)
EXTENDS Integers, Sequences, FiniteSets, TLC

Null == <<>>
Some(x) == <<x>>

\* ------------------------------------------------------------ characters

\* U+FEFF, the byte-order mark (one character).
BOM == "uFEFF"

\* \d
Digit == {"0", "1", "2", "3", "4", "5", "6", "7", "8", "9"}

\* \s and the characters String.prototype.trim removes (ECMAScript WhiteSpace
\* and LineTerminator; U+FEFF is WhiteSpace).
WhiteSpace == {" ", "\t", "\r", "\n", BOM}

\* The characters "." does not match.
LineTerminator == {"\n", "\r"}

UpperCase == <<"A", "B", "C", "D", "E", "F", "G", "H", "I", "J", "K", "L", "M",
               "N", "O", "P", "Q", "R", "S", "T", "U", "V", "W", "X", "Y", "Z">>
LowerCase == <<"a", "b", "c", "d", "e", "f", "g", "h", "i", "j", "k", "l", "m",
               "n", "o", "p", "q", "r", "s", "t", "u", "v", "w", "x", "y", "z">>

UpperCaseSet == {UpperCase[k] : k \in 1..26}

toLowerCaseChar(c) ==
    IF c \in UpperCaseSet
    THEN LowerCase[CHOOSE k \in 1..26 : UpperCase[k] = c]
    ELSE c

\* String.prototype.toLowerCase
toLowerCase(s) == [k \in 1..Len(s) |-> toLowerCaseChar(s[k])]

\* The character at 1-based position i, "" past either end.
At(s, i) == IF i \in 1..Len(s) THEN s[i] ELSE ""

\* s from 1-based position i to its end.
From(s, i) == SubSeq(s, i, Len(s))

\* The literal lit occurs in s at position i (case-sensitive).
ExactAt(s, i, lit) ==
    /\ i >= 1
    /\ i + Len(lit) - 1 <= Len(s)
    /\ \A k \in 1..Len(lit) : s[i + k - 1] = lit[k]

\* The lower-case literal lit occurs in s at position i under the /i flag.
LitAt(s, i, lit) ==
    /\ i >= 1
    /\ i + Len(lit) - 1 <= Len(s)
    /\ \A k \in 1..Len(lit) : toLowerCaseChar(s[i + k - 1]) = lit[k]

\* Length of the longest run of characters of set starting at position i
\* (a greedy \d* or \s*).
RECURSIVE RunLen(_, _, _)
RunLen(s, i, set) ==
    IF i >= 1 /\ i <= Len(s) /\ s[i] \in set THEN 1 + RunLen(s, i + 1, set) ELSE 0

\* Length of the longest run of characters other than c starting at i ([^c]*).
RECURSIVE RunUntil(_, _, _)
RunUntil(s, i, c) ==
    IF i >= 1 /\ i <= Len(s) /\ s[i] # c THEN 1 + RunUntil(s, i + 1, c) ELSE 0

\* String.prototype.trim
RECURSIVE TrimStart(_)
TrimStart(s) == IF s # <<>> /\ Head(s) \in WhiteSpace THEN TrimStart(Tail(s)) ELSE s

RECURSIVE TrimEnd(_)
TrimEnd(s) ==
    IF s # <<>> /\ s[Len(s)] \in WhiteSpace THEN TrimEnd(SubSeq(s, 1, Len(s) - 1)) ELSE s

Trim(s) == TrimEnd(TrimStart(s))

\* String.prototype.indexOf for a one-character needle: 0-based, -1 if absent.
indexOf(s, c) ==
    IF \E i \in 1..Len(s) : s[i] = c
    THEN (CHOOSE i \in 1..Len(s) : s[i] = c /\ \A j \in 1..(i - 1) : s[j] # c) - 1
    ELSE -1

\* String.prototype.includes
includes(s, lit) == \E i \in 1..(Len(s) - Len(lit) + 1) : ExactAt(s, i, lit)

\* chatContent.split('\n')
RECURSIVE split(_)
split(s) ==
    LET n == RunUntil(s, 1, "\n")
    IN  IF n = Len(s) THEN <<s>>
        ELSE <<SubSeq(s, 1, n)>> \o split(From(s, n + 2))

\* String.prototype.replace(pattern, '') with a string pattern: the first
\* occurrence of pattern is removed, s is returned as is when there is none.
replaceFirst(s, pattern) ==
    IF \E i \in 1..(Len(s) - Len(pattern) + 1) : ExactAt(s, i, pattern)
    THEN LET i == CHOOSE i \in 1..(Len(s) - Len(pattern) + 1) :
                     /\ ExactAt(s, i, pattern)
                     /\ \A j \in 1..(i - 1) : ~ExactAt(s, j, pattern)
         IN  SubSeq(s, 1, i - 1) \o From(s, i + Len(pattern))
    ELSE s

\* Decimal value of a run of digits.
DigitValue(c) == CHOOSE v \in 0..9 : <<"0", "1", "2", "3", "4", "5", "6", "7", "8", "9">>[v + 1] = c

RECURSIVE parseInt(_)
parseInt(s) == IF s = <<>> THEN 0 ELSE 10 * parseInt(SubSeq(s, 1, Len(s) - 1)) + DigitValue(s[Len(s)])

\* -------------------------------------------------------- header pattern

\* [APMapm]
AmPmChar == {"A", "P", "M", "a", "p", "m"}

\* line.match(/^(\d{1,2}\/\d{1,2}\/\d{2,4}),\s*(\d{1,2}:\d{2}\s*[APMapm]{2})\s*-\s*(.+)$/i)
\* Each quantified run is followed by a character outside its class, so the
\* greedy run lengths are the only candidates; only the \s* in front of (.+)
\* can give a character back.  ok is FALSE when there is no match; date,
\* time and content are the groups 1, 2 and 3.
dateTimeMatch(line) ==
    LET n1 == RunLen(line, 1, Digit)
        p1 == 1 + n1                              \* first "/"
        n2 == RunLen(line, p1 + 1, Digit)
        p2 == p1 + 1 + n2                         \* second "/"
        n3 == RunLen(line, p2 + 1, Digit)
        p3 == p2 + 1 + n3                         \* ","
        s1 == RunLen(line, p3 + 1, WhiteSpace)
        t  == p3 + 1 + s1                         \* first digit of the time
        n4 == RunLen(line, t, Digit)
        p4 == t + n4                              \* ":"
        e  == p4 + 3                              \* after the two minute digits
        s2 == RunLen(line, e, WhiteSpace)
        a  == e + s2                              \* first am/pm character
        s3 == RunLen(line, a + 2, WhiteSpace)
        d  == a + 2 + s3                          \* "-"
        s4 == RunLen(line, d + 1, WhiteSpace)
        r  == IF d + 1 + s4 <= Len(line) THEN d + 1 + s4 ELSE Len(line)
        matched ==
            /\ n1 \in 1..2 /\ At(line, p1) = "/"
            /\ n2 \in 1..2 /\ At(line, p2) = "/"
            /\ n3 \in 2..4 /\ At(line, p3) = ","
            /\ n4 \in 1..2 /\ At(line, p4) = ":"
            /\ At(line, p4 + 1) \in Digit /\ At(line, p4 + 2) \in Digit
            /\ At(line, a) \in AmPmChar /\ At(line, a + 1) \in AmPmChar
            /\ At(line, d) = "-"
            /\ r > d
            /\ \A k \in r..Len(line) : line[k] \notin LineTerminator
    IN  IF matched
        THEN [ok |-> TRUE, date |-> SubSeq(line, 1, p3 - 1),
              time |-> SubSeq(line, t, a + 1), content |-> From(line, r)]
        ELSE [ok |-> FALSE, date |-> <<>>, time |-> <<>>, content |-> <<>>]

\* ------------------------------------------------------------- timestamp

\* Days from 1970-01-01 to the civil date y-m-d (proleptic Gregorian); a day
\* past the end of the month runs into the next month, as MakeDay does.
DaysFromCivil(y, m, d) ==
    LET yy  == IF m <= 2 THEN y - 1 ELSE y
        era == yy \div 400
        yoe == yy - era * 400
        mp  == IF m > 2 THEN m - 3 ELSE m + 9
        doy == (153 * mp + 2) \div 5 + d - 1
        doe == yoe * 365 + yoe \div 4 - yoe \div 100 + doy
    IN  era * 146097 + doe - 719468

\* Not-a-Number, the time value of an invalid Date.
NaN == <<>>

\* new Date(`${date} ${time}`).getTime() for the date and time groups of the
\* header pattern, as the legacy (non-ISO) date parser of V8 reads
\* "M/D/Y H:MM am|pm": month 1..12, day 1..31, a year below 50 is 20xx and
\* one of 50..99 is 19xx, the hour 0..12 with an am or pm word (12 am is 0,
\* 12 pm is 12), the minute 0..59, any other word after the time makes the
\* date invalid.  The value is in minutes since the epoch in UTC (getTime()
\* is 60000 times it): the model's integers are 32 bits wide.
getTime(date, time) ==
    LET n1 == RunLen(date, 1, Digit)
        n2 == RunLen(date, n1 + 2, Digit)
        month == parseInt(SubSeq(date, 1, n1))
        day   == parseInt(SubSeq(date, n1 + 2, n1 + 1 + n2))
        yr    == parseInt(From(date, n1 + n2 + 3))
        year  == IF yr <= 49 THEN 2000 + yr ELSE IF yr <= 99 THEN 1900 + yr ELSE yr
        n4 == RunLen(time, 1, Digit)
        hour12 == parseInt(SubSeq(time, 1, n4))
        minute == parseInt(SubSeq(time, n4 + 2, n4 + 3))
        word == toLowerCase(From(time, Len(time) - 1))
        hour == IF word = <<"p", "m">> THEN (hour12 % 12) + 12 ELSE hour12 % 12
        valid ==
            /\ month \in 1..12 /\ day \in 1..31
            /\ word \in {<<"a", "m">>, <<"p", "m">>}
            /\ hour12 \in 0..12 /\ minute \in 0..59
    IN  IF valid
        THEN Some((DaysFromCivil(year, month, day) * 24 + hour) * 60 + minute)
        ELSE NaN

\* --------------------------------------------------- attachment patterns

NoMatch == [ok |-> FALSE, whole |-> <<>>, group1 |-> <<>>]

\* /<attached:\s*([^>]+)>/i at position i: the end of the match, 0 if none.
attachedPatternAt(text, i) ==
    LET c == i + 10
        g == RunUntil(text, c, ">")
    IN  IF LitAt(text, i, <<"<", "a", "t", "t", "a", "c", "h", "e", "d", ":">>) /\ g >= 1 /\ At(text, c + g) = ">"
        THEN c + g ELSE 0

\* messageText.match(attachedPattern): the leftmost match; whole is match[0]
\* and group1 is match[1] (the greedy \s* keeps every leading white space
\* character but the last one of an all-white-space name).
attachedMatch(text) ==
    IF \E i \in 1..Len(text) : attachedPatternAt(text, i) > 0
    THEN LET i == CHOOSE i \in 1..Len(text) :
                     /\ attachedPatternAt(text, i) > 0
                     /\ \A j \in 1..(i - 1) : attachedPatternAt(text, j) = 0
             c  == i + 10
             g  == RunUntil(text, c, ">")
             ws == RunLen(text, c, WhiteSpace)
             s  == IF ws >= g THEN g - 1 ELSE ws
         IN  [ok |-> TRUE, whole |-> SubSeq(text, i, c + g),
              group1 |-> SubSeq(text, c + s, c + g - 1)]
    ELSE NoMatch

\* \((file|image)\s+attached\) at position p, under /i: the end of the
\* marker, 0 if none.
fileAttachedMarkerAt(text, p) ==
    LET w == IF LitAt(text, p + 1, <<"f", "i", "l", "e">>) THEN 4
             ELSE IF LitAt(text, p + 1, <<"i", "m", "a", "g", "e">>) THEN 5 ELSE 0
        s == RunLen(text, p + 1 + w, WhiteSpace)
    IN  IF At(text, p) = "(" /\ w > 0 /\ s >= 1 /\ LitAt(text, p + 1 + w + s, <<"a", "t", "t", "a", "c", "h", "e", "d", ")">>)
        THEN p + w + s + 9 ELSE 0

\* (.+?)\s* matching text[st..e] and the white space between e and the
\* marker at p: group 1 holds no line terminator ("." matches none).
fileAttachedFrom(text, st, e, p) ==
    /\ st <= e /\ e < p
    /\ \A k \in (e + 1)..(p - 1) : text[k] \in WhiteSpace
    /\ \A k \in st..e : text[k] \notin LineTerminator

\* The positions of text where a marker "(file attached)" starts.
fileAttachedMarkers(text) == {p \in 2..Len(text) : fileAttachedMarkerAt(text, p) > 0}

\* Group 1 can be text[st..e], and some group 1 can start at st.
fileAttachedEndsAt(text, markers, st, e) ==
    \E p \in markers : fileAttachedFrom(text, st, e, p)

fileAttachedStartsAt(text, markers, st) ==
    \E e \in st..Len(text) : fileAttachedEndsAt(text, markers, st, e)

\* The match that starts at st: the shortest group 1 (the lazy quantifier)
\* and the marker that follows it.
fileAttachedMatchAt(text, markers, st) ==
    LET e == CHOOSE x \in st..Len(text) :
                 /\ fileAttachedEndsAt(text, markers, st, x)
                 /\ \A y \in st..(x - 1) : ~fileAttachedEndsAt(text, markers, st, y)
        p == CHOOSE x \in markers : fileAttachedFrom(text, st, e, x)
    IN  [ok |-> TRUE, whole |-> SubSeq(text, st, fileAttachedMarkerAt(text, p)),
         group1 |-> SubSeq(text, st, e)]

\* messageText.match(/(.+?)\s*\((file|image)\s+attached\)/i): the match at
\* the leftmost start.
fileAttachedMatch(text) ==
    LET markers == fileAttachedMarkers(text)
        starts  == {st \in 1..Len(text) : fileAttachedStartsAt(text, markers, st)}
    IN  IF markers # {} /\ starts # {}
        THEN fileAttachedMatchAt(text, markers, CHOOSE st \in starts : \A y \in starts : st <= y)
        ELSE NoMatch

\* (jpg|jpeg|png|gif|webp|mp4)
imgExtensions == <<<<"j", "p", "g">>, <<"j", "p", "e", "g">>, <<"p", "n", "g">>, <<"g", "i", "f">>, <<"w", "e", "b", "p">>, <<"m", "p", "4">>>>

\* (pdf|docx?|xlsx?|pptx?|txt|mp3|wav|ogg): each alternative with whether an
\* optional x follows it.
documentExtensions ==
    <<[ext |-> <<"p", "d", "f">>, x |-> FALSE], [ext |-> <<"d", "o", "c">>, x |-> TRUE],
      [ext |-> <<"x", "l", "s">>, x |-> TRUE], [ext |-> <<"p", "p", "t">>, x |-> TRUE],
      [ext |-> <<"t", "x", "t">>, x |-> FALSE], [ext |-> <<"m", "p", "3">>, x |-> FALSE],
      [ext |-> <<"w", "a", "v">>, x |-> FALSE], [ext |-> <<"o", "g", "g">>, x |-> FALSE]>>

\* IMG-\d+\.(jpg|jpeg|png|gif|webp|mp4) at position i, under /i: the end of
\* the match (the first alternative that matches), 0 if none.
imgNameAt(text, i) ==
    LET d == RunLen(text, i + 4, Digit)
        x == i + 4 + d + 1
        alts == {k \in 1..Len(imgExtensions) : LitAt(text, x, imgExtensions[k])}
    IN  IF LitAt(text, i, <<"i", "m", "g", "-">>) /\ d >= 1 /\ At(text, x - 1) = "." /\ alts # {}
        THEN x + Len(imgExtensions[CHOOSE k \in alts : \A j \in alts : k <= j]) - 1
        ELSE 0

\* Document-\d+\.(pdf|docx?|xlsx?|pptx?|txt|mp3|wav|ogg) at position i.
documentNameAt(text, i) ==
    LET d == RunLen(text, i + 9, Digit)
        x == i + 9 + d + 1
        alts == {k \in 1..Len(documentExtensions) : LitAt(text, x, documentExtensions[k].ext)}
    IN  IF LitAt(text, i, <<"d", "o", "c", "u", "m", "e", "n", "t", "-">>) /\ d >= 1 /\ At(text, x - 1) = "." /\ alts # {}
        THEN LET alt == documentExtensions[CHOOSE k \in alts : \A j \in alts : k <= j]
                 end == x + Len(alt.ext) - 1
             IN  IF alt.x /\ toLowerCaseChar(At(text, end + 1)) = "x" THEN end + 1 ELSE end
        ELSE 0

directFilePatternAt(text, i) ==
    IF imgNameAt(text, i) > 0 THEN imgNameAt(text, i) ELSE documentNameAt(text, i)

\* messageText.match(directFilePattern): the leftmost match; group 1 is the
\* whole match.
directFileMatch(text) ==
    IF \E i \in 1..Len(text) : directFilePatternAt(text, i) > 0
    THEN LET i == CHOOSE i \in 1..Len(text) :
                     /\ directFilePatternAt(text, i) > 0
                     /\ \A j \in 1..(i - 1) : directFilePatternAt(text, j) = 0
             m == SubSeq(text, i, directFilePatternAt(text, i))
         IN  [ok |-> TRUE, whole |-> m, group1 |-> m]
    ELSE NoMatch

\* ------------------------------------------------------------ getFileType

imageTypes == {<<"j", "p", "g">>, <<"j", "p", "e", "g">>, <<"p", "n", "g">>, <<"g", "i", "f">>, <<"w", "e", "b", "p">>, <<"b", "m", "p">>, <<"s", "v", "g">>}
videoTypes == {<<"m", "p", "4">>, <<"a", "v", "i">>, <<"m", "o", "v">>, <<"w", "m", "v">>, <<"f", "l", "v">>, <<"w", "e", "b", "m">>}
audioTypes == {<<"m", "p", "3">>, <<"w", "a", "v">>, <<"o", "g", "g">>, <<"a", "a", "c">>, <<"m", "4", "a">>, <<"f", "l", "a", "c">>}
documentTypes == {<<"p", "d", "f">>, <<"d", "o", "c">>, <<"d", "o", "c", "x">>, <<"x", "l", "s">>, <<"x", "l", "s", "x">>, <<"p", "p", "t">>, <<"p", "p", "t", "x">>, <<"t", "x", "t">>}

\* filename.toLowerCase().split('.').pop(): the text after the last ".",
\* the whole name when it has none.
extensionOf(filename) ==
    LET s == toLowerCase(filename)
        dots == {i \in 1..Len(s) : s[i] = "."}
    IN  IF dots = {} THEN s
        ELSE From(s, (CHOOSE i \in dots : \A j \in dots : j <= i) + 1)

getFileType(filename) ==
    LET extension == extensionOf(filename)
    IN  IF extension \in imageTypes THEN "image"
        ELSE IF extension \in videoTypes THEN "video"
        ELSE IF extension \in audioTypes THEN "audio"
        ELSE IF extension \in documentTypes THEN "document"
        ELSE "unknown"

\* ------------------------------------------------------ extractAttachment

\* files.get(filename): Some(blob) for a key of the Map, Null (undefined)
\* otherwise.  The values are Blob objects, which are all truthy.
filesGet(files, filename) ==
    IF filename \in DOMAIN files THEN Some(files[filename]) ELSE Null

\* Mutant of descriptor: the name is reported in lower case.
descriptorLowerCased(files, filename, originalText) ==
    [filename |-> toLowerCase(filename), type |-> getFileType(filename),
     originalText |-> originalText, blob |-> filesGet(files, filename)[1]]

\* The descriptor one pattern returns when its name is in the table.
descriptor(files, filename, originalText) ==
    [filename |-> filename, type |-> getFileType(filename),
     originalText |-> originalText, blob |-> filesGet(files, filename)[1]]

\* Mutant of extractAttachment: the patterns are tried in the reverse order.
extractAttachmentBareFirst(messageText, files) ==
    LET m1 == attachedMatch(messageText)
        m2 == fileAttachedMatch(messageText)
        m3 == directFileMatch(messageText)
    IN  IF messageText = <<>> THEN Null
        ELSE IF m3.ok /\ filesGet(files, m3.group1) # Null
        THEN Some(descriptor(files, m3.group1, m3.group1))
        ELSE IF m2.ok /\ filesGet(files, Trim(m2.group1)) # Null
        THEN Some(descriptor(files, Trim(m2.group1), m2.whole))
        ELSE IF m1.ok /\ filesGet(files, Trim(m1.group1)) # Null
        THEN Some(descriptor(files, Trim(m1.group1), m1.whole))
        ELSE Null

\* extractAttachment(messageText, files): Null, or Some(descriptor) of the
\* first of the three patterns that matches AND whose name is in the table.
extractAttachment(messageText, files) ==
    LET m1 == attachedMatch(messageText)
        m2 == fileAttachedMatch(messageText)
        m3 == directFileMatch(messageText)
    IN  IF messageText = <<>> THEN Null
        ELSE IF m1.ok /\ filesGet(files, Trim(m1.group1)) # Null
        THEN Some(descriptor(files, Trim(m1.group1), m1.whole))
        ELSE IF m2.ok /\ filesGet(files, Trim(m2.group1)) # Null
        THEN Some(descriptor(files, Trim(m2.group1), m2.whole))
        ELSE IF m3.ok /\ filesGet(files, m3.group1) # Null
        THEN Some(descriptor(files, m3.group1, m3.group1))
        ELSE Null

\* Mutant of stripAttachment: only the file name is removed.
stripAttachmentFilename(messageText, attachment) ==
    IF attachment # Null
    THEN Trim(replaceFirst(messageText, attachment[1].filename))
    ELSE messageText

\* finalMessageText of parseChat: messageText with the first occurrence of
\* the attachment's originalText removed and the result trimmed, messageText
\* itself when there is no attachment.
stripAttachment(messageText, attachment) ==
    IF attachment # Null
    THEN Trim(replaceFirst(messageText, attachment[1].originalText))
    ELSE messageText

\* ---------------------------------------------------- getSystemMessageType

\* Mutant of getSystemMessageType: removed / left is checked first.
getSystemMessageTypeLeftFirst(message) ==
    LET lowerMessage == toLowerCase(message)
    IN  IF includes(lowerMessage, <<"r", "e", "m", "o", "v", "e", "d">>) \/ includes(lowerMessage, <<"l", "e", "f", "t">>)
        THEN "left"
        ELSE IF \/ includes(lowerMessage, <<"j", "o", "i", "n", "e", "d", " ", "u", "s", "i", "n", "g", " ", "t", "h", "i", "s", " ", "g", "r", "o", "u", "p", "'", "s", " ", "i", "n", "v", "i", "t", "e", " ", "l", "i", "n", "k">>)
                \/ includes(lowerMessage, <<"j", "o", "i", "n", "e", "d">>)
                \/ includes(lowerMessage, <<"a", "d", "d", "e", "d">>)
        THEN "joined"
        ELSE IF \/ includes(lowerMessage, <<"c", "r", "e", "a", "t", "e", "d", " ", "g", "r", "o", "u", "p">>)
                \/ includes(lowerMessage, <<"g", "r", "o", "u", "p", " ", "c", "r", "e", "a", "t", "e", "d">>)
        THEN "created"
        ELSE IF \/ includes(lowerMessage, <<"c", "h", "a", "n", "g", "e", "d", " ", "t", "h", "e", " ", "g", "r", "o", "u", "p", " ", "n", "a", "m", "e">>)
                \/ includes(lowerMessage, <<"g", "r", "o", "u", "p", " ", "n", "a", "m", "e", " ", "c", "h", "a", "n", "g", "e", "d">>)
        THEN "name_changed"
        ELSE IF \/ includes(lowerMessage, <<"c", "h", "a", "n", "g", "e", "d", " ", "g", "r", "o", "u", "p", " ", "d", "e", "s", "c", "r", "i", "p", "t", "i", "o", "n">>)
                \/ includes(lowerMessage, <<"g", "r", "o", "u", "p", " ", "d", "e", "s", "c", "r", "i", "p", "t", "i", "o", "n", " ", "c", "h", "a", "n", "g", "e", "d">>)
        THEN "description_changed"
        ELSE IF \/ includes(lowerMessage, <<"c", "h", "a", "n", "g", "e", "d", " ", "t", "h", "i", "s", " ", "g", "r", "o", "u", "p", "'", "s", " ", "i", "c", "o", "n">>)
                \/ includes(lowerMessage, <<"g", "r", "o", "u", "p", " ", "i", "c", "o", "n", " ", "c", "h", "a", "n", "g", "e", "d">>)
        THEN "icon_changed"
        ELSE IF includes(lowerMessage, <<"m", "e", "s", "s", "a", "g", "e", "s", " ", "a", "n", "d", " ", "c", "a", "l", "l", "s", " ", "a", "r", "e", " ", "e", "n", "d", "-", "t", "o", "-", "e", "n", "d", " ", "e", "n", "c", "r", "y", "p", "t", "e", "d">>)
        THEN "encryption"
        ELSE IF includes(lowerMessage, <<"e", "n", "d", "e", "d">>) \/ includes(lowerMessage, <<"d", "e", "l", "e", "t", "e", "d">>)
        THEN "ended"
        ELSE "other"

getSystemMessageType(message) ==
    LET lowerMessage == toLowerCase(message)
    IN  IF \/ includes(lowerMessage, <<"j", "o", "i", "n", "e", "d", " ", "u", "s", "i", "n", "g", " ", "t", "h", "i", "s", " ", "g", "r", "o", "u", "p", "'", "s", " ", "i", "n", "v", "i", "t", "e", " ", "l", "i", "n", "k">>)
           \/ includes(lowerMessage, <<"j", "o", "i", "n", "e", "d">>)
           \/ includes(lowerMessage, <<"a", "d", "d", "e", "d">>)
        THEN "joined"
        ELSE IF includes(lowerMessage, <<"r", "e", "m", "o", "v", "e", "d">>) \/ includes(lowerMessage, <<"l", "e", "f", "t">>)
        THEN "left"
        ELSE IF \/ includes(lowerMessage, <<"c", "r", "e", "a", "t", "e", "d", " ", "g", "r", "o", "u", "p">>)
                \/ includes(lowerMessage, <<"g", "r", "o", "u", "p", " ", "c", "r", "e", "a", "t", "e", "d">>)
        THEN "created"
        ELSE IF \/ includes(lowerMessage, <<"c", "h", "a", "n", "g", "e", "d", " ", "t", "h", "e", " ", "g", "r", "o", "u", "p", " ", "n", "a", "m", "e">>)
                \/ includes(lowerMessage, <<"g", "r", "o", "u", "p", " ", "n", "a", "m", "e", " ", "c", "h", "a", "n", "g", "e", "d">>)
        THEN "name_changed"
        ELSE IF \/ includes(lowerMessage, <<"c", "h", "a", "n", "g", "e", "d", " ", "g", "r", "o", "u", "p", " ", "d", "e", "s", "c", "r", "i", "p", "t", "i", "o", "n">>)
                \/ includes(lowerMessage, <<"g", "r", "o", "u", "p", " ", "d", "e", "s", "c", "r", "i", "p", "t", "i", "o", "n", " ", "c", "h", "a", "n", "g", "e", "d">>)
        THEN "description_changed"
        ELSE IF \/ includes(lowerMessage, <<"c", "h", "a", "n", "g", "e", "d", " ", "t", "h", "i", "s", " ", "g", "r", "o", "u", "p", "'", "s", " ", "i", "c", "o", "n">>)
                \/ includes(lowerMessage, <<"g", "r", "o", "u", "p", " ", "i", "c", "o", "n", " ", "c", "h", "a", "n", "g", "e", "d">>)
        THEN "icon_changed"
        ELSE IF includes(lowerMessage, <<"m", "e", "s", "s", "a", "g", "e", "s", " ", "a", "n", "d", " ", "c", "a", "l", "l", "s", " ", "a", "r", "e", " ", "e", "n", "d", "-", "t", "o", "-", "e", "n", "d", " ", "e", "n", "c", "r", "y", "p", "t", "e", "d">>)
        THEN "encryption"
        ELSE IF includes(lowerMessage, <<"e", "n", "d", "e", "d">>) \/ includes(lowerMessage, <<"d", "e", "l", "e", "t", "e", "d">>)
        THEN "ended"
        ELSE "other"

\* ------------------------------------------------------------------ state

VARIABLES
    chatContent,      \* parseChat: the chatContent argument
    files,            \* the files Map: file name -> Blob handle
    lines,            \* parseChat: the trimmed lines
    index,            \* parseChat: forEach index of the next line (0-based)
    lastMessage,      \* parseChat: Null or Some(message being accumulated)
    chatMessages,     \* parseChat: the messages pushed so far
    pc,               \* parseChat: "start", "loop", "done" ("idle": not called)
    now,              \* the last value Date.now() returned
    messageText,      \* extractAttachment called alone: its messageText argument
    attachment,       \* ... its return value
    finalMessageText, \* ... and messageText with the marker stripped (lines 547-550)
    rpc,              \* ... "call", "returned" ("idle": not called)
    message,          \* getSystemMessageType, parsePollMessage, formatMessageText called alone: the argument
    systemType,       \* getSystemMessageType called alone: Null or Some(return value)
    poll,             \* parsePollMessage called alone: its return value
    formatted,        \* formatMessageText called alone: Null or Some(return value)
    mpc,              \* ... "call", "returned" ("idle": not called)
    urls,             \* ObjectURLManager: this.urls, key -> URL
    blobUrls,         \* the browser's blob URL store: the URLs created and not revoked
    urlSeq,           \* the number of URLs URL.createObjectURL has returned
    zip,              \* loadZipFile calls, each on its own ZipHandler: call -> its state
    app,              \* App: the values of its useState hooks
    uploads,          \* App.handleFileUpload: invocation -> its state
    urlsRef,          \* useObjectUrls: urlsRef.current
    hook,             \* useZipUpload: the values of its useState hooks
    handleFile        \* ZipUploader.handleFile: invocation -> its state

parseVars == <<chatContent, lines, index, lastMessage, chatMessages, pc, now>>
resolveVars == <<messageText, attachment, finalMessageText, rpc>>
helperVars == <<message, systemType, poll, formatted, mpc>>
urlVars == <<urls, blobUrls, urlSeq>>
uploadVars == <<app, uploads, urlsRef>>
hookVars == <<hook, handleFile>>
flowVars == <<zip, uploadVars, hookVars>>
appVars == <<urlVars, flowVars>>
vars == <<chatContent, files, lines, index, lastMessage, chatMessages, pc, now,
          messageText, attachment, finalMessageText, rpc,
          message, systemType, poll, formatted, mpc,
          urls, blobUrls, urlSeq, zip, app, uploads, urlsRef, hook, handleFile>>

\* ----------------------------------------------------------------- bounds

\* Longest input, in lines.
MaxLines == 3
\* Latest reading of the clock behind Date.now(), in ticks after the call.
MaxNow == 1
\* Longest message text handed to extractAttachment alone, in pieces.
MaxPieces == 2

\* ----------------------------------------------------------------- inputs

\* Lines that occur any number of times in an input.
CoreLines ==
    { <<"1", "/", "2", "/", "2", "4", ",", " ", "1", "0", ":", "3", "0", " ", "A", "M", " ", "-", " ", "A", "l", "i", "c", "e", ":", " ", "H", "e", "l", "l", "o">>,
      <<"W", "o", "r", "l", "d">> }

\* Lines of which an input holds at most one.
SpecialLines ==
    { <<"1", "/", "2", "/", "2", "4", ",", " ", "1", "0", ":", "3", "1", " ", "A", "M", " ", "-", " ", "B", "o", "b", " ", "j", "o", "i", "n", "e", "d", " ", "u", "s", "i", "n", "g", " ", "t", "h", "i", "s", " ", "g", "r", "o", "u", "p", "'", "s", " ", "i", "n", "v", "i", "t", "e", " ", "l", "i", "n", "k">>,
      <<>>,                                          \* an empty line
      <<"1", "/", "1", "/", "2", "4", ",", " ", "9", ":", "0", "5", " ", "p", "m", " ", "-", " ", "B", "o", "b", ":", " ", "b", ":", " ", "c">>,                 \* earlier than the core headers
      <<"1", "3", "/", "4", "0", "/", "2", "4", ",", " ", "1", "0", ":", "3", "0", " ", "A", "M", " ", "-", " ", "C", "a", "r", "o", "l", ":", " ", "h", "i">>,              \* no valid calendar instant
      <<"1", "/", "2", "/", "2", "4", ",", " ", "1", "0", ":", "3", "0", " ", "A", "M", " ", "-", " ", ":", " ", "x">>,                      \* colon at index 0
      <<"1", "/", "2", "/", "2", "4", ",", " ", "1", "0", ":", "3", "0", " ", "A", "M", " ", "-", " ", "S", "y", "s", "t", "e", "m", ":", " ", "h", "i">>,
      <<"1", "/", "2", "/", "2", "4", ",", " ", "1", "0", ":", "3", "0", " ", "A", "M", " ", "-", " ", "A", ":", " ", "<", "a", "t", "t", "a", "c", "h", "e", "d", ":", " ", "p", "h", "o", "t", "o", ".", "j", "p", "g", ">">>,
      <<"1", "/", "2", "/", "2", "4", ",", " ", "1", "0", ":", "3", "0", " ", "A", "M", " ", "-", " ", "A", ":", " ", "I", "M", "G", "-", "1", ".", "j", "p", "g", " ", "(", "f", "i", "l", "e", " ", "a", "t", "t", "a", "c", "h", "e", "d", ")">>,
      <<"1", "/", "2", "/", "2", "4", ",", " ", "1", "0", ":", "3", "0", " ", "A", "M", " ", "-", " ", "A", ":", " ", "I", "M", "G", "-", "1", ".", "j", "p", "g">>,
      <<"1", "/", "2", "/", "2", "4", ",", " ", "1", "0", ":", "3", "0", " ", "A", "M", " ", "-", " ", "A", ":", " ", "<", "a", "t", "t", "a", "c", "h", "e", "d", ":", " ", "p", "h", "o", "t", "o", ".", "j", "p", "g", ">", " ", "I", "M", "G", "-", "1", ".", "j", "p", "g">>,
      <<"1", "/", "2", "/", "2", "4", ",", " ", "1", "0", ":", "3", "0", " ", "A", "M", " ", "-", " ", "A", ":", " ", "I", "M", "G", "-", "1", ".", "j", "p", "g", " ", "(", "f", "i", "l", "e", " ", "a", "t", "t", "a", "c", "h", "e", "d", ")", " ", "<", "a", "t", "t", "a", "c", "h", "e", "d", ":", " ", "p", "h", "o", "t", "o", ".", "j", "p", "g", ">">>,
      <<"1", "/", "2", "/", "2", "4", ",", " ", "1", "0", ":", "3", "0", " ", "A", "M", " ", "-", " ", "I", "M", "G", "-", "1", ".", "j", "p", "g", " ", "(", "f", "i", "l", "e", " ", "a", "t", "t", "a", "c", "h", "e", "d", ")">>, \* no colon: a system message
      <<" ", " ", "<", "a", "t", "t", "a", "c", "h", "e", "d", ":", " ", "p", "h", "o", "t", "o", ".", "j", "p", "g", ">">>,                     \* a marker on a continuation line
      <<"1", "/", "2", "/", "2", "4", ",", " ", "1", "0", ":", "3", "0", " ", "-", " ", "D", "a", "n", ":", " ", "2", "4", "h">>,                    \* no am/pm marker
      <<BOM>> \o <<"1", "/", "2", "/", "2", "4", ",", " ", "1", "0", ":", "3", "0", " ", "A", "M", " ", "-", " ", "A", "l", "i", "c", "e", ":", " ", "H", "e", "l", "l", "o", "\r">> }

\* The sequences of n lines: core lines, with at most one special line.
RECURSIVE CoreSeqs(_)
CoreSeqs(n) ==
    IF n = 0 THEN {<<>>}
    ELSE {<<l>> \o ls : l \in CoreLines, ls \in CoreSeqs(n - 1)}

LineSeqs(n) ==
    CoreSeqs(n) \cup
    { SubSeq(ls, 1, k - 1) \o <<x>> \o SubSeq(ls, k, n - 1) :
          ls \in CoreSeqs(n - 1), k \in 1..n, x \in SpecialLines }

\* The lines joined by "\n".
RECURSIVE joinLines(_)
joinLines(ls) ==
    IF Len(ls) = 1 THEN ls[1] ELSE ls[1] \o <<"\n">> \o joinLines(Tail(ls))

Texts == UNION { {joinLines(ls) : ls \in LineSeqs(n)} : n \in 1..MaxLines }

\* A chatContent that is no string (undefined, null, a number): it has no
\* charCodeAt method.
NotAString == <<"undefined">>

\* What a caller hands to parseChat.
Contents == Texts \cup {NotAString}

\* File tables: the Map the caller passes.
Tables ==
    { <<>>,
      [n \in {<<"I", "M", "G", "-", "1", ".", "j", "p", "g">>} |-> "blob2"],
      [n \in {<<"p", "h", "o", "t", "o", ".", "j", "p", "g">>, <<"I", "M", "G", "-", "1", ".", "j", "p", "g">>} |-> IF n = <<"p", "h", "o", "t", "o", ".", "j", "p", "g">> THEN "blob1" ELSE "blob2"] }

\* Pieces of a message text handed to extractAttachment alone.
Pieces ==
    { <<"<", "a", "t", "t", "a", "c", "h", "e", "d", ":", " ", "p", "h", "o", "t", "o", ".", "j", "p", "g", ">">>, <<"<", "A", "T", "T", "A", "C", "H", "E", "D", ":", "p", "h", "o", "t", "o", ".", "j", "p", "g", " ", ">">>, <<"I", "M", "G", "-", "1", ".", "j", "p", "g", " ", "(", "f", "i", "l", "e", " ", "a", "t", "t", "a", "c", "h", "e", "d", ")">>,
      <<"D", "o", "c", "u", "m", "e", "n", "t", "-", "2", ".", "p", "d", "f", " ", "(", "I", "m", "a", "g", "e", " ", " ", "a", "t", "t", "a", "c", "h", "e", "d", ")">>, <<"I", "M", "G", "-", "1", ".", "j", "p", "g">>, <<"h", "i">> }

RECURSIVE PieceSeqs(_)
PieceSeqs(n) ==
    IF n = 1 THEN Pieces
    ELSE {p \o <<" ">> \o ps : p \in Pieces, ps \in PieceSeqs(n - 1)}

MessageTexts == UNION { PieceSeqs(n) : n \in 1..MaxPieces }

ResolveBlobs == [n \in {<<"p", "h", "o", "t", "o", ".", "j", "p", "g">>, <<"I", "M", "G", "-", "1", ".", "j", "p", "g">>, <<"D", "o", "c", "u", "m", "e", "n", "t", "-", "2", ".", "p", "d", "f">>} |->
                    IF n = <<"p", "h", "o", "t", "o", ".", "j", "p", "g">> THEN "blob1"
                    ELSE IF n = <<"I", "M", "G", "-", "1", ".", "j", "p", "g">> THEN "blob2" ELSE "blob3"]

\* Every table over the three names.
ResolveTables == { [n \in S |-> ResolveBlobs[n]] : S \in SUBSET DOMAIN ResolveBlobs }

\* -------------------------------------------------------------- parseChat

\* Number.prototype.toString of a non-negative integer.
RECURSIVE toString(_)
toString(n) ==
    LET d == <<"0", "1", "2", "3", "4", "5", "6", "7", "8", "9">>[(n % 10) + 1]
    IN  IF n < 10 THEN <<d>> ELSE toString(n \div 10) \o <<d>>

\* Mutant of messageId: the clock reading alone.
messageIdTimeOnly(t, i) == toString(t)

\* `${Date.now()}-${index}`
messageId(t, i) == toString(t) \o <<"-">> \o toString(i)

\* The sentinel sender of a system message.
SystemSender == <<"S", "y", "s", "t", "e", "m">>

\* chatContent.charCodeAt exists.
isString(content) == content # NotAString

\* Mutant of filesAfter: the file that is found is taken out of the Map.
filesAfterTaking(text, table) ==
    LET att == extractAttachment(text, table)
    IN  IF att = Null THEN table
        ELSE [n \in DOMAIN table \ {att[1].filename} |-> table[n]]

\* The Map after extractAttachment(text, table): files.get is the only
\* method called on it, and it leaves the Map as it is.
filesAfter(text, table) == table

\* chatContent with a leading U+FEFF removed.
stripBOM(content) == IF At(content, 1) = BOM THEN Tail(content) ELSE content

\* chatContent.split('\n').map(line => line.trim())
trimmedLines(content) ==
    LET raw == split(content) IN [k \in 1..Len(raw) |-> Trim(raw[k])]

\* Mutant of hasSender: a colon at index 0 counts.
hasSenderFromZero(colonIndex) == colonIndex >= 0

\* colonIndex > 0 (line 537): the content has a sender.
hasSender(colonIndex) == colonIndex > 0

\* The message object of a header line whose content has its first colon
\* at colonIndex > 0 (lines 538-561), but for its id.
regularMessage(m, content, colonIndex, table) ==
    LET sender == Trim(SubSeq(content, 1, colonIndex))
        text   == Trim(From(content, colonIndex + 2))
        att    == extractAttachment(text, table)
    IN  [date |-> m.date, time |-> m.time,
         sender |-> sender, message |-> stripAttachment(text, att),
         attachment |-> att, timestamp |-> getTime(m.date, m.time),
         type |-> "message"]

\* Mutant of systemMessage: the attachment resolver is run on the content.
systemMessageResolved(m, content) ==
    [date |-> m.date, time |-> m.time,
     sender |-> SystemSender, message |-> content,
     attachment |-> extractAttachment(content, files),
     timestamp |-> getTime(m.date, m.time),
     type |-> "system", systemType |-> getSystemMessageType(content)]

\* The message object of a header line with no colon after position 0
\* (lines 563-576), but for its id.
systemMessage(m, content) ==
    [date |-> m.date, time |-> m.time,
     sender |-> SystemSender, message |-> content,
     attachment |-> Null, timestamp |-> getTime(m.date, m.time),
     type |-> "system", systemType |-> getSystemMessageType(content)]

\* The message object with its id (lines 553, 567), Date.now() returning t
\* at line index i.
withId(msg, t, i) == [id |-> messageId(t, i)] @@ msg

\* Mutant of pushLast: the message is put in front (unshift).
pushLastInFront(messages, last) == IF last # Null THEN <<last[1]>> \o messages ELSE messages

\* chatMessages.push(lastMessage) when there is a lastMessage.
pushLast(messages, last) == IF last # Null THEN Append(messages, last[1]) ELSE messages

\* Mutant of appendLine: empty lines are skipped.
appendLineSkippingEmpty(msg, line) ==
    IF line = <<>> THEN msg ELSE [msg EXCEPT !.message = @ \o <<"\n">> \o line]

\* lastMessage.message += '\n' + line
appendLine(msg, line) == [msg EXCEPT !.message = @ \o <<"\n">> \o line]

\* The line the loop is at.
currentLine == lines[index + 1]

\* The values Date.now() can return: the clock does not run backwards, and
\* any number of ticks may have passed since the last reading.
DateNow == now..MaxNow

\* The variables of a function that is not called.
ParseIdle ==
    /\ chatContent = <<>>
    /\ lines = <<>>
    /\ index = 0
    /\ lastMessage = Null
    /\ chatMessages = <<>>
    /\ pc = "idle"
    /\ now = 0

ResolveIdle ==
    /\ messageText = <<>>
    /\ attachment = Null
    /\ finalMessageText = <<>>
    /\ rpc = "idle"

HelperIdle ==
    /\ message = <<>>
    /\ systemType = Null
    /\ poll = Null
    /\ formatted = Null
    /\ mpc = "idle"

\* No ObjectURLManager has been constructed and no URL created.
UrlIdle ==
    /\ urls = <<>>
    /\ blobUrls = {}
    /\ urlSeq = 0

\* No loadZipFile call has been made.
ZipIdle == zip = <<>>

\* App.jsx lines 13-20: the state of the App when it is mounted.
AppMounted ==
    [chatContent |-> Null, messages |-> <<>>, isUploading |-> FALSE, isProcessing |-> FALSE,
     error |-> Null, zipHandler |-> Null, selectedAttachment |-> Null]

\* No file has been handed to the App.
UploadIdle ==
    /\ app = AppMounted
    /\ uploads = <<>>
    /\ urlsRef = {}

\* useZipUpload lines 9-13: the state of the hook when it is mounted.
HookMounted ==
    [isUploading |-> FALSE, isProcessing |-> FALSE, progress |-> 0, error |-> Null,
     result |-> Null]

\* No file has been handed to the ZipUploader.
HookIdle ==
    /\ hook = HookMounted
    /\ handleFile = <<>>

FlowIdle == ZipIdle /\ UploadIdle /\ HookIdle

AppIdle == UrlIdle /\ FlowIdle

Init ==
    /\ chatContent \in Contents
    /\ files \in Tables
    /\ lines = <<>>
    /\ index = 0
    /\ lastMessage = Null
    /\ chatMessages = <<>>
    /\ pc = "start"
    /\ now = 0
    /\ messageText = <<>>
    /\ attachment = Null
    /\ finalMessageText = <<>>
    /\ rpc = "idle"
    /\ HelperIdle
    /\ AppIdle

\* Lines 499-515: the byte-order mark, the split, the trim.
Start ==
    /\ pc = "start"
    /\ isString(chatContent)
    /\ lines' = trimmedLines(stripBOM(chatContent))
    /\ pc' = "loop"
    /\ UNCHANGED <<chatContent, files, index, lastMessage, chatMessages, now>>
    /\ UNCHANGED <<resolveVars, helperVars, appVars>>

\* Mutant of Fail: a header line whose date and time give no valid instant
\* throws as well.
FailOnInvalidDate ==
    /\ \/ pc = "start" /\ ~isString(chatContent)
       \/ /\ pc = "loop" /\ index < Len(lines)
          /\ dateTimeMatch(currentLine).ok
          /\ getTime(dateTimeMatch(currentLine).date, dateTimeMatch(currentLine).time) = NaN
    /\ pc' = "failed"
    /\ UNCHANGED <<chatContent, files, lines, index, lastMessage, chatMessages, now>>
    /\ UNCHANGED <<resolveVars, helperVars, appVars>>

\* Lines 498-500, 591-594: charCodeAt of a chatContent that is no string
\* throws, and the catch block throws 'Failed to parse chat: ...'.
Fail ==
    /\ pc = "start"
    /\ ~isString(chatContent)
    /\ pc' = "failed"
    /\ UNCHANGED <<chatContent, files, lines, index, lastMessage, chatMessages, now>>
    /\ UNCHANGED <<resolveVars, helperVars, appVars>>

\* Lines 524-561: a header line whose content has a colon after position 0.
HeaderMessage(m, content, colonIndex) ==
    /\ m.ok
    /\ hasSender(colonIndex)
    /\ files' = filesAfter(Trim(From(content, colonIndex + 2)), files)
    /\ chatMessages' = pushLast(chatMessages, lastMessage)
    /\ LET msg == regularMessage(m, content, colonIndex, files)
       IN  \E t \in DateNow :
               /\ now' = t
               /\ lastMessage' = Some(withId(msg, t, index))

\* Lines 524-535, 562-577: a header line with no such colon.
HeaderSystem(m, content, colonIndex) ==
    /\ m.ok
    /\ ~hasSender(colonIndex)
    /\ chatMessages' = pushLast(chatMessages, lastMessage)
    /\ UNCHANGED files
    /\ LET msg == systemMessage(m, content)
       IN  \E t \in DateNow :
               /\ now' = t
               /\ lastMessage' = Some(withId(msg, t, index))

\* Lines 578-581: a line that is no header while a message is accumulated.
Continuation(m) ==
    /\ ~m.ok
    /\ lastMessage # Null
    /\ lastMessage' = Some(appendLine(lastMessage[1], currentLine))
    /\ UNCHANGED <<files, chatMessages, now>>

\* Mutant of SkipLine: the line starts a system message.
SkipLineKept(m) ==
    /\ ~m.ok
    /\ lastMessage = Null
    /\ lastMessage' = Some(withId(systemMessage(m, currentLine), now, index))
    /\ UNCHANGED <<files, chatMessages, now>>

\* Lines 524, 578: a line that is no header before the first message.
SkipLine(m) ==
    /\ ~m.ok
    /\ lastMessage = Null
    /\ UNCHANGED <<files, lastMessage, chatMessages, now>>

\* Lines 517-582: the forEach callback on the next line.
ProcessLine ==
    /\ pc = "loop" /\ index < Len(lines)
    /\ LET m == dateTimeMatch(currentLine)
           content == Trim(m.content)
           colonIndex == indexOf(content, ":")
       IN  \/ HeaderMessage(m, content, colonIndex)
           \/ HeaderSystem(m, content, colonIndex)
           \/ Continuation(m)
           \/ SkipLine(m)
    /\ index' = index + 1
    /\ UNCHANGED <<chatContent, lines, pc>>
    /\ UNCHANGED <<resolveVars, helperVars, appVars>>

\* Mutant of Finish: the message still being accumulated is not pushed.
FinishWithoutPush ==
    /\ pc = "loop" /\ index = Len(lines)
    /\ pc' = "done"
    /\ UNCHANGED <<chatContent, files, lines, index, lastMessage, chatMessages, now>>
    /\ UNCHANGED <<resolveVars, helperVars, appVars>>

\* Lines 584-590: after the last line.
Finish ==
    /\ pc = "loop" /\ index = Len(lines)
    /\ chatMessages' = pushLast(chatMessages, lastMessage)
    /\ pc' = "done"
    /\ UNCHANGED <<chatContent, files, lines, index, lastMessage, now>>
    /\ UNCHANGED <<resolveVars, helperVars, appVars>>

Next ==
    \/ Start
    \/ Fail
    \/ ProcessLine
    \/ Finish

Spec == Init /\ [][Next]_vars

\* ------------------------------------------- extractAttachment called alone

InitResolve ==
    /\ messageText \in MessageTexts
    /\ files \in ResolveTables
    /\ attachment = Null
    /\ finalMessageText = <<>>
    /\ rpc = "call"
    /\ chatContent = <<>>
    /\ lines = <<>>
    /\ index = 0
    /\ lastMessage = Null
    /\ chatMessages = <<>>
    /\ pc = "idle"
    /\ now = 0
    /\ HelperIdle
    /\ AppIdle

\* extractAttachment(messageText, files) and the stripping of lines 547-550.
Resolve ==
    /\ rpc = "call"
    /\ attachment' = extractAttachment(messageText, files)
    /\ finalMessageText' = stripAttachment(messageText, extractAttachment(messageText, files))
    /\ rpc' = "returned"
    /\ files' = filesAfter(messageText, files)
    /\ UNCHANGED messageText
    /\ UNCHANGED <<parseVars, helperVars, appVars>>

NextResolve == Resolve

SpecResolve == InitResolve /\ [][NextResolve]_vars

\* ----------------------------------------- getSystemMessageType called alone

\* Longest system message text, in phrases.
MaxPhrases == 2

\* Phrases of a system message: those of the eight checks, some in another
\* case, and words no check looks for.
Phrases ==
    { <<"B", "o", "b", " ", "j", "o", "i", "n", "e", "d", " ", "u", "s", "i", "n", "g", " ", "t", "h", "i", "s", " ", "g", "r", "o", "u", "p", "'", "s", " ", "i", "n", "v", "i", "t", "e", " ", "l", "i", "n", "k">>, <<"J", "o", "i", "n", "e", "d">>, <<"A", "D", "D", "E", "D">>,
      <<"r", "e", "m", "o", "v", "e", "d">>, <<"L", "e", "f", "t">>, <<"c", "r", "e", "a", "t", "e", "d", " ", "g", "r", "o", "u", "p">>, <<"G", "r", "o", "u", "p", " ", "C", "r", "e", "a", "t", "e", "d">>,
      <<"c", "h", "a", "n", "g", "e", "d", " ", "t", "h", "e", " ", "g", "r", "o", "u", "p", " ", "n", "a", "m", "e">>, <<"g", "r", "o", "u", "p", " ", "n", "a", "m", "e", " ", "c", "h", "a", "n", "g", "e", "d">>,
      <<"c", "h", "a", "n", "g", "e", "d", " ", "g", "r", "o", "u", "p", " ", "d", "e", "s", "c", "r", "i", "p", "t", "i", "o", "n">>, <<"g", "r", "o", "u", "p", " ", "d", "e", "s", "c", "r", "i", "p", "t", "i", "o", "n", " ", "c", "h", "a", "n", "g", "e", "d">>,
      <<"c", "h", "a", "n", "g", "e", "d", " ", "t", "h", "i", "s", " ", "g", "r", "o", "u", "p", "'", "s", " ", "i", "c", "o", "n">>, <<"g", "r", "o", "u", "p", " ", "i", "c", "o", "n", " ", "c", "h", "a", "n", "g", "e", "d">>,
      <<"M", "e", "s", "s", "a", "g", "e", "s", " ", "a", "n", "d", " ", "c", "a", "l", "l", "s", " ", "a", "r", "e", " ", "e", "n", "d", "-", "t", "o", "-", "e", "n", "d", " ", "e", "n", "c", "r", "y", "p", "t", "e", "d">>,
      <<"e", "n", "d", "e", "d">>, <<"D", "E", "L", "E", "T", "E", "D">>, <<"c", "r", "e", "a", "t", "e", "d">>, <<"g", "r", "o", "u", "p">>, <<"h", "e", "l", "l", "o">> }

RECURSIVE PhraseSeqs(_)
PhraseSeqs(n) ==
    IF n = 1 THEN Phrases
    ELSE {p \o <<" ">> \o ps : p \in Phrases, ps \in PhraseSeqs(n - 1)}

SystemTexts == UNION { PhraseSeqs(n) : n \in 1..MaxPhrases }

InitSystemType ==
    /\ message \in SystemTexts
    /\ systemType = Null
    /\ poll = Null
    /\ formatted = Null
    /\ mpc = "call"
    /\ files = <<>>
    /\ ParseIdle
    /\ ResolveIdle
    /\ AppIdle

\* getSystemMessageType(message)
Classify ==
    /\ mpc = "call"
    /\ systemType' = Some(getSystemMessageType(message))
    /\ mpc' = "returned"
    /\ UNCHANGED <<message, poll, formatted, files, parseVars, resolveVars, appVars>>

NextSystemType == Classify

SpecSystemType == InitSystemType /\ [][NextSystemType]_vars

\* ------------------------------------------------------- parsePollMessage

\* The indicator symbols, each the character sequence the source file holds
\* for it, taken as one character: the bar chart and the ballot box with
\* ballot of the poll check, the bullet, the check mark and the ballot box
\* with check of the option check.
ChartSymbol == "u1F4CA"
BallotSymbol == "u1F5F3"
Bullet == "u2022"
CheckMark == "u2713"
BallotBox == "u2611"

\* .filter(line => line.length > 0)
RECURSIVE nonEmptyLines(_)
nonEmptyLines(ls) ==
    IF ls = <<>> THEN <<>>
    ELSE (IF Head(ls) = <<>> THEN <<>> ELSE <<Head(ls)>>) \o nonEmptyLines(Tail(ls))

\* message.trim().split('\n').map(line => line.trim()).filter(...)
pollLines(text) == nonEmptyLines(trimmedLines(Trim(text)))

\* lines[0].includes('POLL:') || ... 'Poll:' || ... 'poll:' (lines 24-26, 46)
hasPollPrefix(line) ==
    includes(line, <<"P", "O", "L", "L", ":">>) \/ includes(line, <<"P", "o", "l", "l", ":">>) \/ includes(line, <<"p", "o", "l", "l", ":">>)

\* hasPollIndicator (lines 24-28)
hasPollIndicator(line) ==
    \/ hasPollPrefix(line)
    \/ includes(line, <<ChartSymbol>>)
    \/ includes(line, <<BallotSymbol>>)

\* The test of lines.some (lines 34-39) on one line.
hasOptionIndicator(line) ==
    \/ includes(line, <<"O", "P", "T", "I", "O", "N", ":">>) \/ includes(line, <<"O", "p", "t", "i", "o", "n", ":">>) \/ includes(line, <<"o", "p", "t", "i", "o", "n", ":">>)
    \/ includes(line, <<Bullet>>)
    \/ includes(line, <<CheckMark>>)
    \/ includes(line, <<BallotBox>>)

\* Some line after the first one has an option indicator.
hasOptionsAfterFirst(ls) == \E k \in 2..Len(ls) : hasOptionIndicator(ls[k])

\* hasOptions (line 33): lines.some runs over every line, the first included.
hasOptions(ls) == \E k \in 1..Len(ls) : hasOptionIndicator(ls[k])

\* lines[0].replace(/^(POLL:|Poll:|poll:)\s*/i, '')
stripPollPrefix(line) ==
    IF LitAt(line, 1, <<"p", "o", "l", "l", ":">>) THEN From(line, 6 + RunLen(line, 6, WhiteSpace)) ELSE line

\* title (lines 45-50)
pollTitle(ls) ==
    IF hasPollPrefix(ls[1]) THEN Trim(stripPollPrefix(ls[1]))
    ELSE IF Len(ls) > 1 THEN ls[2]
    ELSE <<>>

\* No character of line[a..b] is a line terminator ("." matches each).
noTerminator(line, a, b) == \A k \in a..b : line[k] \notin LineTerminator

\* The position of the first character after position e that is no white
\* space (where a greedy \s* followed by "(" has to end).
afterSpace(line, e) == e + 1 + RunLen(line, e + 1, WhiteSpace)

\* The position of the first ")" after position p, 0 if there is none.
closingAfter(line, p) ==
    IF \E q \in (p + 1)..Len(line) : line[q] = ")"
    THEN CHOOSE q \in (p + 1)..Len(line) :
             line[q] = ")" /\ \A r \in (p + 1)..(q - 1) : line[r] # ")"
    ELSE 0

\* \s*\((\d+).*?\) matches after position e.
optionTail(line, e) ==
    LET p == afterSpace(line, e)
        q == closingAfter(line, p + 1)
    IN  /\ At(line, p) = "(" /\ At(line, p + 1) \in Digit
        /\ q > 0 /\ noTerminator(line, p + 1, q - 1)

\* \s*\((\d+).*?\)$ matches after position e.
simpleTail(line, e) ==
    LET p == afterSpace(line, e)
    IN  /\ At(line, p) = "(" /\ At(line, p + 1) \in Digit
        /\ Len(line) >= p + 2 /\ line[Len(line)] = ")"
        /\ noTerminator(line, p + 1, Len(line) - 1)

\* (\d+) of a tail after position e.
countAfter(line, e) ==
    LET p == afterSpace(line, e)
    IN  SubSeq(line, p + 1, p + RunLen(line, p + 1, Digit))

\* (?:OPTION:|Option:|option:|bullet|check mark|ballot box) at position i,
\* under /i: the length of the label, 0 if none.
optionLabelAt(line, i) ==
    IF LitAt(line, i, <<"o", "p", "t", "i", "o", "n", ":">>) THEN 7
    ELSE IF At(line, i) \in {Bullet, CheckMark, BallotBox} THEN 1
    ELSE 0

\* (.+?) can be line[a..e] in optionRegex.
optionTextEndsAt(line, a, e) == noTerminator(line, a, e) /\ optionTail(line, e)

\* The numbers of white space characters the greedy \s* after a label that
\* ends before position j can keep.
optionSpaces(line, j) ==
    {s \in 0..RunLen(line, j, WhiteSpace) :
        \E e \in (j + s)..Len(line) : optionTextEndsAt(line, j + s, e)}

NoOption == [ok |-> FALSE, group1 |-> <<>>, group2 |-> <<>>]

\* The match of optionRegex that starts at position i: the longest white
\* space after the label, then the shortest group 1.
optionMatchAt(line, i) ==
    LET j == i + optionLabelAt(line, i)
        S == optionSpaces(line, j)
        a == j + (CHOOSE s \in S : \A t \in S : t <= s)
        e == CHOOSE x \in a..Len(line) :
                 /\ optionTextEndsAt(line, a, x)
                 /\ \A y \in a..(x - 1) : ~optionTextEndsAt(line, a, y)
    IN  [ok |-> TRUE, group1 |-> SubSeq(line, a, e), group2 |-> countAfter(line, e)]

\* Positions where optionRegex matches.
optionStarts(line) ==
    {i \in 1..Len(line) :
        optionLabelAt(line, i) > 0 /\ optionSpaces(line, i + optionLabelAt(line, i)) # {}}

\* line.match(optionRegex) (lines 54, 58): the leftmost match.
optionRegexMatch(line) ==
    LET starts == optionStarts(line)
    IN  IF starts = {} THEN NoOption
        ELSE optionMatchAt(line, CHOOSE i \in starts : \A k \in starts : i <= k)

\* line.match(/^(.+?)\s*\((\d+).*?\)$/) (line 72)
simpleOptionMatch(line) ==
    LET E == {e \in 1..Len(line) : noTerminator(line, 1, e) /\ simpleTail(line, e)}
        e == CHOOSE x \in E : \A y \in E : x <= y
    IN  IF E = {} THEN NoOption
        ELSE [ok |-> TRUE, group1 |-> SubSeq(line, 1, e), group2 |-> countAfter(line, e)]

\* The option a match gives (lines 61-69, 74-82): none when the trimmed
\* text is empty.
optionOfMatch(m) ==
    IF Trim(m.group1) # <<>>
    THEN << [text |-> Trim(m.group1), votes |-> parseInt(m.group2)] >>
    ELSE <<>>

\* The body of the for loop (lines 57-84) on one line: the options pushed.
optionsOfLine(line) ==
    LET match == optionRegexMatch(line)
        simple == simpleOptionMatch(line)
    IN  IF match.ok THEN optionOfMatch(match)
        ELSE IF simple.ok THEN optionOfMatch(simple)
        ELSE <<>>

\* The for loop (lines 56-85) from line i (counted from 1) to the last line.
RECURSIVE optionsFrom(_, _)
optionsFrom(ls, i) ==
    IF i > Len(ls) THEN <<>> ELSE optionsOfLine(ls[i]) \o optionsFrom(ls, i + 1)

\* Mutant of enoughOptions: one option is enough.
enoughOptionsOne(options) == ~(Len(options) < 1)

\* if (options.length < 2) return null (line 88)
enoughOptions(options) == ~(Len(options) < 2)

\* options.reduce((sum, option) => sum + option.votes, 0) (line 91)
RECURSIVE totalVotes(_)
totalVotes(options) ==
    IF options = <<>> THEN 0 ELSE Head(options).votes + totalVotes(Tail(options))

\* Math.max(...options.map(option => option.votes)) (line 92), on a list
\* that is not empty.
maxVotes(options) ==
    CHOOSE v \in {options[k].votes : k \in 1..Len(options)} :
        \A k \in 1..Len(options) : options[k].votes <= v

\* Mutant of maxVotesOrOne: the maximum as it is.
maxVotesUnfloored(options) == maxVotes(options)

\* maxVotes || 1 (line 98)
maxVotesOrOne(options) == IF maxVotes(options) = 0 THEN 1 ELSE maxVotes(options)

\* Mutant of pollOptions: the first line is read for an option too.
pollOptionsFromFirst(ls) == optionsFrom(ls, 1)

\* options after the loop: for (let i = 1; i < lines.length; i++) (line 56)
pollOptions(ls) == optionsFrom(ls, 2)

\* title || 'Poll' (line 95)
titleOrPoll(ls) == IF pollTitle(ls) = <<>> THEN <<"P", "o", "l", "l">> ELSE pollTitle(ls)

\* The object returned at lines 94-99.
pollOf(ls, options) ==
    [title |-> titleOrPoll(ls),
     options |-> options,
     totalVotes |-> totalVotes(options),
     maxVotes |-> maxVotesOrOne(options)]

\* parsePollMessage (lines 11-100)
parsePollMessage(text) ==
    LET ls == pollLines(text)
        options == pollOptions(ls)
    IN  IF text = <<>> \/ ~isString(text) THEN Null
        ELSE IF Len(ls) < 3 THEN Null
        ELSE IF ~hasPollIndicator(ls[1]) THEN Null
        ELSE IF ~hasOptions(ls) THEN Null
        ELSE IF ~enoughOptions(options) THEN Null
        ELSE Some(pollOf(ls, options))

\* The largest number of lines after the first one in a poll text.
MaxOptionLines == 3

\* First lines of the texts handed to parsePollMessage.
PollFirstLines ==
    { <<"P", "O", "L", "L", ":", " ", "L", "u", "n", "c", "h", "?">>, <<"P", "o", "l", "l", ":", " ", "O", "p", "t", "i", "o", "n", ":", " ", "l", "u", "n", "c", "h">>, <<"P", "O", "L", "L", ":", " ", "T", "e", "a", " ", "(", "5", ")">>, <<"p", "o", "l", "l", ":">>,
      <<ChartSymbol>> \o <<" ", "L", "u", "n", "c", "h", " ", "(", "2", ")">>, <<ChartSymbol>> \o <<" ", "P", "O", "L", "L", ":", " ", "D", "i", "n", "n", "e", "r">>, <<"L", "u", "n", "c", "h", "?">> }

\* Lines after the first one: option lines with a label, with a bullet and
\* bare ones, with and without votes.
PollCoreLines ==
    { <<"O", "P", "T", "I", "O", "N", ":", " ", "P", "i", "z", "z", "a", " ", "(", "3", " ", "v", "o", "t", "e", "s", ")">>, <<"O", "P", "T", "I", "O", "N", ":", " ", "S", "u", "s", "h", "i", " ", "(", "1", " ", "v", "o", "t", "e", ")">>, <<Bullet>> \o <<" ", "T", "a", "c", "o", "s", " ", "(", "0", ")">>,
      <<"N", "a", "c", "h", "o", "s", " ", "(", "0", " ", "v", "o", "t", "e", "s", ")">> }

\* Lines of which a text holds one at most: a two-digit count, a label
\* without a text, a label without a count, a line of neither shape, a blank
\* line.
PollSpecialLines ==
    { <<"R", "a", "m", "e", "n", " ", "(", "1", "2", ")">>, <<"O", "p", "t", "i", "o", "n", ":", " ", " ", "(", "3", ")">>, <<"O", "p", "t", "i", "o", "n", ":", " ", "n", "o", "n", "e">>, <<"h", "e", "l", "l", "o">>, <<" ", " ">> }

RECURSIVE PollCoreSeqs(_)
PollCoreSeqs(n) ==
    IF n = 0 THEN {<<>>}
    ELSE {<<l>> \o ls : l \in PollCoreLines, ls \in PollCoreSeqs(n - 1)}

PollLaterSeqs(n) ==
    IF n = 0 THEN {<<>>}
    ELSE PollCoreSeqs(n) \cup
         { SubSeq(ls, 1, k - 1) \o <<x>> \o SubSeq(ls, k, n - 1) :
               ls \in PollCoreSeqs(n - 1), k \in 1..n, x \in PollSpecialLines }

PollTexts ==
    UNION { {joinLines(<<f>> \o ls) : f \in PollFirstLines, ls \in PollLaterSeqs(n)} :
            n \in 0..MaxOptionLines }

\* What a caller hands to parsePollMessage: a text, the empty string, or
\* something that is no string.
PollMessages == PollTexts \cup {<<>>, NotAString}

InitPoll ==
    /\ message \in PollMessages
    /\ systemType = Null
    /\ poll = Null
    /\ formatted = Null
    /\ mpc = "call"
    /\ files = <<>>
    /\ ParseIdle
    /\ ResolveIdle
    /\ AppIdle

ParsePoll ==
    /\ mpc = "call"
    /\ poll' = parsePollMessage(message)
    /\ mpc' = "returned"
    /\ UNCHANGED <<message, systemType, formatted, files, parseVars, resolveVars, appVars>>

NextPoll == ParsePoll

SpecPoll == InitPoll /\ [][NextPoll]_vars

\* ------------------------------------------------------ formatMessageText

\* Length of the longest run of characters outside set starting at i
\* ([^\s]* for the white space set).
RECURSIVE RunNotIn(_, _, _)
RunNotIn(s, i, set) ==
    IF i >= 1 /\ i <= Len(s) /\ s[i] \notin set THEN 1 + RunNotIn(s, i + 1, set) ELSE 0

\* [a-zA-Z]
Letter == UpperCaseSet \cup {LowerCase[k] : k \in 1..26}

\* [a-zA-Z0-9.-]
DomainChar == Letter \cup Digit \cup {".", "-"}

\* The first position from i on where the literal d occurs, 0 if none.
nextAt(s, i, d) ==
    IF \E j \in i..Len(s) : ExactAt(s, j, d)
    THEN CHOOSE j \in i..Len(s) :
             ExactAt(s, j, d) /\ \A k \in i..(j - 1) : ~ExactAt(s, k, d)
    ELSE 0

\* d(.*?)d matches at position i: d is there, d comes again, and no line
\* terminator lies between the two.
delimitedAt(s, i, d) ==
    /\ ExactAt(s, i, d)
    /\ nextAt(s, i + Len(d), d) > 0
    /\ \A k \in (i + Len(d))..(nextAt(s, i + Len(d), d) - 1) : s[k] \notin LineTerminator

\* The first position from c on where d(.*?)d matches, 0 if none.
delimitedFrom(s, c, d) ==
    IF \E i \in c..Len(s) : delimitedAt(s, i, d)
    THEN CHOOSE i \in c..Len(s) :
             delimitedAt(s, i, d) /\ \A k \in c..(i - 1) : ~delimitedAt(s, k, d)
    ELSE 0

\* s.replace(/d(.*?)d/g, open + '$1' + close), from position c on.
RECURSIVE replaceDelimited(_, _, _, _, _)
replaceDelimited(s, c, d, open, close) ==
    LET i == delimitedFrom(s, c, d)
        j == nextAt(s, i + Len(d), d)
    IN  IF i = 0 THEN SubSeq(s, c, Len(s))
        ELSE SubSeq(s, c, i - 1) \o open \o SubSeq(s, i + Len(d), j - 1) \o close
             \o replaceDelimited(s, j + Len(d), d, open, close)

\* https?:\/\/[^\s]+ at position i: the position of its last character, 0
\* if it does not match.
protocolLinkEnd(s, i) ==
    LET p == IF ExactAt(s, i, <<"h", "t", "t", "p", "s", ":", "/", "/">>) THEN 8
             ELSE IF ExactAt(s, i, <<"h", "t", "t", "p", ":", "/", "/">>) THEN 7 ELSE 0
        r == RunNotIn(s, i + p, WhiteSpace)
    IN  IF p > 0 /\ r > 0 THEN i + p + r - 1 ELSE 0

\* www\.[^\s]+ at position i.
wwwLinkEnd(s, i) ==
    LET r == RunNotIn(s, i + 4, WhiteSpace)
    IN  IF ExactAt(s, i, <<"w", "w", "w", ".">>) /\ r > 0 THEN i + 3 + r ELSE 0

\* The numbers of characters [a-zA-Z0-9.-]+ can keep at position i so that
\* \.[a-zA-Z]{2,} follows.
domainLengths(s, i) ==
    {k \in 1..(RunLen(s, i, DomainChar) - 1) :
        s[i + k] = "." /\ RunLen(s, i + k + 1, Letter) >= 2}

\* [a-zA-Z0-9.-]+\.[a-zA-Z]{2,}(?:\/[^\s]*)? at position i: the longest
\* first part, all the letters after its dot, and the path if a "/" follows.
domainLinkEnd(s, i) ==
    LET K == domainLengths(s, i)
        k == CHOOSE x \in K : \A y \in K : y <= x
        e == i + k + RunLen(s, i + k + 1, Letter)
    IN  IF K = {} THEN 0
        ELSE IF At(s, e + 1) = "/" THEN e + 1 + RunNotIn(s, e + 2, WhiteSpace)
        ELSE e

\* The link pattern at position i: the first alternative that matches.
linkEnd(s, i) ==
    IF protocolLinkEnd(s, i) > 0 THEN protocolLinkEnd(s, i)
    ELSE IF wwwLinkEnd(s, i) > 0 THEN wwwLinkEnd(s, i)
    ELSE domainLinkEnd(s, i)

\* The first position from c on where the link pattern matches, 0 if none.
linkFrom(s, c) ==
    IF \E i \in c..Len(s) : linkEnd(s, i) > 0
    THEN CHOOSE i \in c..Len(s) : linkEnd(s, i) > 0 /\ \A k \in c..(i - 1) : linkEnd(s, k) = 0
    ELSE 0

\* const url = match.startsWith('http') ? match : `https://${match}` (line 742)
linkUrl(match) == IF ExactAt(match, 1, <<"h", "t", "t", "p">>) THEN match ELSE <<"h", "t", "t", "p", "s", ":", "/", "/">> \o match

AnchorOpen == <<"<", "a", " ", "h", "r", "e", "f", "=", "\"">>
AnchorAttributes == <<"\"", " ", "t", "a", "r", "g", "e", "t", "=", "\"", "_", "b", "l", "a", "n", "k", "\"", " ", "r", "e", "l", "=", "\"", "n", "o", "o", "p", "e", "n", "e", "r", " ", "n", "o", "r", "e", "f", "e", "r", "r", "e", "r", "\"", " ", "c", "l", "a", "s", "s", "=", "\"", "t", "e", "x", "t", "-", "b", "l", "u", "e", "-", "3", "0", "0", " ", "h", "o", "v", "e", "r", ":", "t", "e", "x", "t", "-", "b", "l", "u", "e", "-", "2", "0", "0", " ", "h", "o", "v", "e", "r", ":", "u", "n", "d", "e", "r", "l", "i", "n", "e", " ", "u", "n", "d", "e", "r", "l", "i", "n", "e", "-", "o", "f", "f", "s", "e", "t", "-", "2", " ", "c", "u", "r", "s", "o", "r", "-", "p", "o", "i", "n", "t", "e", "r", "\"", ">">>
AnchorClose == <<"<", "/", "a", ">">>

\* The string the callback returns (line 743).
anchor(match) == AnchorOpen \o linkUrl(match) \o AnchorAttributes \o match \o AnchorClose

\* The replace of lines 739-745, from position c on.
RECURSIVE replaceLinks(_, _)
replaceLinks(s, c) ==
    LET i == linkFrom(s, c)
        e == linkEnd(s, i)
    IN  IF i = 0 THEN SubSeq(s, c, Len(s))
        ELSE SubSeq(s, c, i - 1) \o anchor(SubSeq(s, i, e)) \o replaceLinks(s, e + 1)

\* .replace(/\n/g, '<br>'), from position c on.
RECURSIVE replaceNewlines(_, _)
replaceNewlines(s, c) ==
    LET i == nextAt(s, c, <<"\n">>)
    IN  IF i = 0 THEN SubSeq(s, c, Len(s))
        ELSE SubSeq(s, c, i - 1) \o <<"<", "b", "r", ">">> \o replaceNewlines(s, i + 1)

\* formatMessageText (lines 726-749)
formatMessageText(raw) ==
    LET bold == replaceDelimited(raw, 1, <<"*">>, <<"<", "s", "t", "r", "o", "n", "g", ">">>, <<"<", "/", "s", "t", "r", "o", "n", "g", ">">>)
        italic == replaceDelimited(bold, 1, <<"_">>, <<"<", "e", "m", ">">>, <<"<", "/", "e", "m", ">">>)
        strike == replaceDelimited(italic, 1, <<"~">>, <<"<", "d", "e", "l", ">">>, <<"<", "/", "d", "e", "l", ">">>)
        mono == replaceDelimited(strike, 1, <<"u0060", "u0060", "u0060">>, <<"<", "c", "o", "d", "e", ">">>, <<"<", "/", "c", "o", "d", "e", ">">>)
        links == replaceLinks(mono, 1)
    IN  IF raw = <<>> THEN <<>> ELSE replaceNewlines(links, 1)

\* The largest number of tokens in a text handed to formatMessageText.
MaxTokens == 2

\* Tokens of such a text: links with a protocol, with www, bare domains with
\* and without a path, a bare domain that starts with the letters http,
\* emphasis of each kind, plain words.
FormatTokens ==
    { <<"h", "t", "t", "p", "s", ":", "/", "/", "a", ".", "c", "o", "m">>, <<"h", "t", "t", "p", ":", "/", "/", "b", ".", "o", "r", "g", "/", "p">>, <<"w", "w", "w", ".", "c", ".", "n", "e", "t">>, <<"d", ".", "i", "o", "/", "x">>, <<"h", "t", "t", "p", "b", "i", "n", ".", "o", "r", "g">>,
      <<"*", "b", "o", "l", "d", "*">>, <<"_", "i", "t", "_">>, <<"~", "s", "~">>, <<"u0060", "u0060", "u0060", "m", "u0060", "u0060", "u0060">>, <<"e", ".", "g", ".">>, <<"h", "i">> }

RECURSIVE FormatTexts(_)
FormatTexts(n) ==
    IF n = 1 THEN FormatTokens
    ELSE {t \o sep \o ts : t \in FormatTokens, sep \in {<<" ">>, <<"\n">>}, ts \in FormatTexts(n - 1)}

\* What a caller hands to formatMessageText: a text or the empty string.
RawTexts == {<<>>} \cup UNION { FormatTexts(n) : n \in 1..MaxTokens }

InitFormat ==
    /\ message \in RawTexts
    /\ systemType = Null
    /\ poll = Null
    /\ formatted = Null
    /\ mpc = "call"
    /\ files = <<>>
    /\ ParseIdle
    /\ ResolveIdle
    /\ AppIdle

Format ==
    /\ mpc = "call"
    /\ formatted' = Some(formatMessageText(message))
    /\ mpc' = "returned"
    /\ UNCHANGED <<message, systemType, poll, files, parseVars, resolveVars, appVars>>

NextFormat == Format

SpecFormat == InitFormat /\ [][NextFormat]_vars

\* ------------------------------------------------------- ObjectURLManager

\* The largest number of URLs created.
MaxUrls == 4

\* The keys createURL and revokeURL are called with.
Keys == {"k1", "k2", "k3"}

\* URL.createObjectURL(blob): a URL the browser has not returned before.
createObjectURL == urlSeq + 1

\* URL.revokeObjectURL(url): the URL leaves the browser's store.
revokeObjectURL(store, url) == store \ {url}

\* this.urls.delete(key)
mapDelete(map, key) == [k \in DOMAIN map \ {key} |-> map[k]]

\* this.urls.set(key, url)
mapSet(map, key, url) == [k \in DOMAIN map \cup {key} |-> IF k = key THEN url ELSE map[k]]

\* The values of a Map.
mapValues(map) == {map[k] : k \in DOMAIN map}

\* revokeURL(key) (lines 45-51) as a change of the map and of the store:
\* nothing for a key without a URL.
urlsAfterRevoke(map, key) == IF key \in DOMAIN map THEN mapDelete(map, key) ELSE map

\* Mutant of storeAfterRevoke: the key is deleted and its URL not revoked.
storeAfterRevokeKept(store, map, key) == store

storeAfterRevoke(store, map, key) ==
    IF key \in DOMAIN map THEN revokeObjectURL(store, map[key]) ELSE store

\* getCount() (lines 67-69)
getCount == Cardinality(DOMAIN urls)

InitUrls ==
    /\ urls = <<>>
    /\ blobUrls = {}
    /\ urlSeq = 0
    /\ FlowIdle
    /\ files = <<>>
    /\ ParseIdle
    /\ ResolveIdle
    /\ HelperIdle

\* createURL(blob, key) (lines 21-30)
createURL(key) ==
    /\ urlSeq < MaxUrls
    /\ urlSeq' = createObjectURL
    /\ urls' = mapSet(urlsAfterRevoke(urls, key), key, createObjectURL)
    /\ blobUrls' = storeAfterRevoke(blobUrls, urls, key) \cup {createObjectURL}
    /\ UNCHANGED <<flowVars, files, parseVars, resolveVars, helperVars>>

\* revokeURL(key) (lines 45-51)
revokeURL(key) ==
    /\ urls' = urlsAfterRevoke(urls, key)
    /\ blobUrls' = storeAfterRevoke(blobUrls, urls, key)
    /\ UNCHANGED <<urlSeq, flowVars, files, parseVars, resolveVars, helperVars>>

\* The store after this.urls.forEach(url => URL.revokeObjectURL(url)).
storeAfterRevokeAll(store, map) ==
    {u \in store : u \in revokeObjectURL(store, u) \/ u \notin mapValues(map)}

\* revokeAll() (lines 56-61)
revokeAll ==
    /\ urls' = <<>>
    /\ blobUrls' = storeAfterRevokeAll(blobUrls, urls)
    /\ UNCHANGED <<urlSeq, flowVars, files, parseVars, resolveVars, helperVars>>

NextUrls ==
    \/ \E key \in Keys : createURL(key)
    \/ \E key \in Keys : revokeURL(key)
    \/ revokeAll

SpecUrls == InitUrls /\ [][NextUrls]_vars

\* ------------------------------------------------- ZipHandler.loadZipFile

\* const maxSize = 500 * 1024 * 1024 (zipHandler.js line 25)
maxSize == 524288000

\* const batchSize = 10 (zipHandler.js line 65)
batchSize == 10

\* String.prototype.endsWith
endsWith(s, lit) ==
    Len(s) >= Len(lit) /\ SubSeq(s, Len(s) - Len(lit) + 1, Len(s)) = lit

\* The Blob zipFile.async('blob') gives for an entry of an archive.
blobOf(file, entry) == [archive |-> file.name, entry |-> entry.name, text |-> entry.text]

\* this.files.set(filename, blob) on a Map kept in insertion order: a key
\* that is there keeps its place.
filesSet(map, filename, blob) ==
    IF \E k \in 1..Len(map) : map[k].name = filename
    THEN [k \in 1..Len(map) |->
              IF map[k].name = filename THEN [name |-> filename, blob |-> blob] ELSE map[k]]
    ELSE Append(map, [name |-> filename, blob |-> blob])

\* The keys of such a Map that name a chat file (lines 94-98), as positions.
chatFiles(map) ==
    {k \in 1..Len(map) :
        /\ endsWith(toLowerCase(map[k].name), <<".", "t", "x", "t">>)
        /\ \/ includes(toLowerCase(map[k].name), <<"c", "h", "a", "t">>)
           \/ includes(toLowerCase(map[k].name), <<"w", "h", "a", "t", "s", "a", "p", "p">>)}

\* findChatFile() (lines 93-110): Null or Some of the first chat file.
findChatFile(map) ==
    IF chatFiles(map) = {} THEN Null
    ELSE LET k == CHOOSE x \in chatFiles(map) : \A y \in chatFiles(map) : x <= y
         IN  Some([name |-> map[k].name, blob |-> map[k].blob])

\* throw new Error(`Failed to process ZIP file: ${error.message}`) (line 52)
failedToProcess(msg) == <<"F", "a", "i", "l", "e", "d", " ", "t", "o", " ", "p", "r", "o", "c", "e", "s", "s", " ", "Z", "I", "P", " ", "f", "i", "l", "e", ":", " ">> \o msg

\* The state of a call whose promise is rejected with that message.
rejected(z, msg) == [z EXCEPT !.pc = "rejected", !.error = Some(failedToProcess(msg))]

\* The entries of the batch that starts at entry i (0-based) whose blobs are
\* asked for: the entries that are no directories (lines 68-72).
batchEntries(z, i) ==
    {k \in (i + 1)..(i + batchSize) : k <= Len(z.file.entries) /\ ~z.file.entries[k].dir}

\* Mutant of returned: the number of entries of the archive is reported.
returnedAllEntries(z) ==
    [z EXCEPT !.pc = "resolved",
              !.result = Some([chatFile |-> findChatFile(z.files)[1],
                               files |-> z.files,
                               metadata |-> [totalFiles |-> Len(z.file.entries),
                                             zipSize |-> z.file.size,
                                             chatFileName |-> findChatFile(z.files)[1].name]])]

\* Lines 42-50: the object loadZipFile resolves with.
returned(z) ==
    [z EXCEPT !.pc = "resolved",
              !.result = Some([chatFile |-> findChatFile(z.files)[1],
                               files |-> z.files,
                               metadata |-> [totalFiles |-> Len(z.files),
                                             zipSize |-> z.file.size,
                                             chatFileName |-> findChatFile(z.files)[1].name]])]

\* Lines 36-50 after extractFiles has returned.
afterExtract(z) ==
    IF findChatFile(z.files) = Null
    THEN rejected(z, <<"N", "o", " ", "c", "h", "a", "t", " ", "f", "i", "l", "e", " ", "f", "o", "u", "n", "d", ".", " ", "P", "l", "e", "a", "s", "e", " ", "e", "n", "s", "u", "r", "e", " ", "y", "o", "u", "r", " ", "Z", "I", "P", " ", "c", "o", "n", "t", "a", "i", "n", "s", " ", "a", " ", "W", "h", "a", "t", "s", "A", "p", "p", " ", "c", "h", "a", "t", " ", "e", "x", "p", "o", "r", "t", ".">>)
    ELSE returned(z)

\* The loop of extractFiles at entry i: the next batch is started, or the
\* loop has ended (lines 67-70).
batchFrom(z, i) ==
    IF i < Len(z.file.entries)
    THEN [z EXCEPT !.pc = "batch", !.i = i, !.pending = batchEntries(z, i)]
    ELSE afterExtract([z EXCEPT !.i = i])

\* loadZipFile(file) up to its first await (lines 17-31) on a new
\* ZipHandler: the two validations, then JSZip.loadAsync is pending.
called(file) ==
    LET z == [file |-> file, pc |-> "loading", files |-> <<>>, i |-> 0, pending |-> {},
              result |-> Null, error |-> Null]
    IN  IF ~endsWith(toLowerCase(file.name), <<".", "z", "i", "p">>)
        THEN rejected(z, <<"P", "l", "e", "a", "s", "e", " ", "u", "p", "l", "o", "a", "d", " ", "a", " ", "Z", "I", "P", " ", "f", "i", "l", "e">>)
        ELSE IF file.size > maxSize
             THEN rejected(z, <<"F", "i", "l", "e", " ", "t", "o", "o", " ", "l", "a", "r", "g", "e", ".", " ", "M", "a", "x", "i", "m", "u", "m", " ", "s", "i", "z", "e", " ", "i", "s", " ", "5", "0", "0", "M", "B">>)
             ELSE z

\* JSZip.loadAsync(file) has settled (line 31): rejected for a file that is
\* no archive; otherwise extractFiles clears the Map and starts the first
\* batch (lines 61-70).
loaded(z) ==
    IF ~z.file.readable
    THEN rejected(z, <<"C", "a", "n", "'", "t", " ", "f", "i", "n", "d", " ", "e", "n", "d", " ", "o", "f", " ", "c", "e", "n", "t", "r", "a", "l", " ", "d", "i", "r", "e", "c", "t", "o", "r", "y", " ", ":", " ", "i", "s", " ", "t", "h", "i", "s", " ", "a", " ", "z", "i", "p", " ", "f", "i", "l", "e", " ", "?">>)
    ELSE batchFrom([z EXCEPT !.files = <<>>], 0)

\* zipFile.async('blob') of entry k has settled (lines 73-78): the blob is
\* stored, or the failure is logged.
extracted(z, k) ==
    [z EXCEPT !.pending = @ \ {k},
              !.files = IF z.file.entries[k].ok
                        THEN filesSet(@, z.file.entries[k].name, blobOf(z.file, z.file.entries[k]))
                        ELSE @]

\* Promise.all of the batch has resolved and the timer of line 84 is set.
batchDone(z) == [z EXCEPT !.pc = "yield"]

\* Mutant of yielded: the loop ends after the first batch.
yieldedOnce(z) == afterExtract(z)

\* The timer of line 84 has fired: the loop goes on at i + batchSize.
yielded(z) == batchFrom(z, z.i + batchSize)

\* ------------------------------------------------------- loadZipFile calls

\* Most calls of loadZipFile in one behaviour
MaxCalls == 1

\* Entries of archives: directories, files, and files whose blob cannot be
\* produced.
Dir(name) == [name |-> name, dir |-> TRUE, ok |-> TRUE, text |-> <<>>]
Entry(name, text) == [name |-> name, dir |-> FALSE, ok |-> TRUE, text |-> text]
Broken(name) == [name |-> name, dir |-> FALSE, ok |-> FALSE, text |-> <<>>]

ChatEntry == Entry(<<"W", "h", "a", "t", "s", "A", "p", "p", " ", "C", "h", "a", "t", " ", "w", "i", "t", "h", " ", "A", "n", "n", ".", "t", "x", "t">>, <<"1", "/", "2", "/", "2", "4", ",", " ", "1", "0", ":", "3", "0", " ", "A", "M", " ", "-", " ", "A", "n", "n", ":", " ", "h", "i">>)
ImageEntry == Entry(<<"I", "M", "G", "-", "1", ".", "j", "p", "g">>, <<"j", "p", "g">>)

Archive(name, size, entries) ==
    [name |-> name, size |-> size, readable |-> TRUE, entries |-> entries]

\* Nine directories: with any two more entries the archive takes two batches.
NineDirs == [k \in 1..9 |-> Dir(<<"d", UpperCase[k], "/">>)]

ZipFiles ==
    { Archive(<<"c", "h", "a", "t", ".", "z", "i", "p">>, 1000, <<Dir(<<"c", "h", "a", "t", "s", ".", "t", "x", "t", "/">>), ChatEntry, ImageEntry>>),
      Archive(<<"E", "x", "p", "o", "r", "t", ".", "Z", "I", "P">>, maxSize, <<Entry(<<"_", "C", "H", "A", "T", ".", "T", "X", "T">>, <<"h", "i">>)>>),
      Archive(<<"b", "i", "g", ".", "z", "i", "p">>, maxSize + 1, <<ChatEntry>>),
      Archive(<<"c", "h", "a", "t", ".", "z", "i", "p", ".", "t", "x", "t">>, 1000, <<ChatEntry>>),
      Archive(<<"z", "i", "p">>, 1000, <<ChatEntry>>),
      Archive(<<"t", "w", "o", ".", "z", "i", "p">>, 1000, NineDirs \o <<ImageEntry, ChatEntry>>),
      Archive(<<"l", "a", "t", "e", ".", "z", "i", "p">>, 1000, NineDirs \o <<ImageEntry, Broken(<<"_", "c", "h", "a", "t", ".", "t", "x", "t">>)>>),
      Archive(<<"p", "a", "i", "r", ".", "z", "i", "p">>, 1000, <<Entry(<<"_", "c", "h", "a", "t", ".", "t", "x", "t">>, <<"a">>), Entry(<<"w", "h", "a", "t", "s", "a", "p", "p", " ", "n", "o", "t", "e", "s", ".", "t", "x", "t">>, <<"b">>)>>),
      Archive(<<"t", "r", "i", "o", ".", "z", "i", "p">>, 1000, <<ImageEntry, ChatEntry, Entry(<<"C", "h", "a", "t", " ", "b", "a", "c", "k", "u", "p", ".", "t", "x", "t">>, <<"c">>)>>),
      Archive(<<"n", "o", "c", "h", "a", "t", ".", "z", "i", "p">>, 1000, <<ImageEntry, Entry(<<"n", "o", "t", "e", "s", ".", "t", "x", "t">>, <<"n">>), Entry(<<"c", "h", "a", "t", ".", "p", "d", "f">>, <<"p">>)>>),
      Archive(<<"b", "r", "o", "k", "e", "n", ".", "z", "i", "p">>, 1000, <<Broken(<<"_", "c", "h", "a", "t", ".", "t", "x", "t">>), ImageEntry>>),
      Archive(<<"e", "m", "p", "t", "y", ".", "z", "i", "p">>, 1000, <<>>),
      [name |-> <<"p", "h", "o", "t", "o", ".", "z", "i", "p">>, size |-> 1000, readable |-> FALSE, entries |-> <<>>] }

InitZip ==
    /\ zip = <<>>
    /\ UploadIdle
    /\ HookIdle
    /\ UrlIdle
    /\ files = <<>>
    /\ ParseIdle
    /\ ResolveIdle
    /\ HelperIdle

\* new ZipHandler().loadZipFile(file) is called.
ZipCall ==
    /\ Len(zip) < MaxCalls
    /\ \E file \in ZipFiles : zip' = Append(zip, called(file))
    /\ UNCHANGED <<urlVars, uploadVars, hookVars, files, parseVars, resolveVars, helperVars>>

ZipLoaded(c) ==
    /\ zip[c].pc = "loading"
    /\ zip' = [zip EXCEPT ![c] = loaded(@)]
    /\ UNCHANGED <<urlVars, uploadVars, hookVars, files, parseVars, resolveVars, helperVars>>

ZipExtracted(c) ==
    /\ zip[c].pc = "batch"
    /\ \E k \in zip[c].pending : zip' = [zip EXCEPT ![c] = extracted(@, k)]
    /\ UNCHANGED <<urlVars, uploadVars, hookVars, files, parseVars, resolveVars, helperVars>>

ZipBatchDone(c) ==
    /\ zip[c].pc = "batch"
    /\ zip[c].pending = {}
    /\ zip' = [zip EXCEPT ![c] = batchDone(@)]
    /\ UNCHANGED <<urlVars, uploadVars, hookVars, files, parseVars, resolveVars, helperVars>>

ZipYielded(c) ==
    /\ zip[c].pc = "yield"
    /\ zip' = [zip EXCEPT ![c] = yielded(@)]
    /\ UNCHANGED <<urlVars, uploadVars, hookVars, files, parseVars, resolveVars, helperVars>>

NextZip ==
    \/ ZipCall
    \/ \E c \in 1..Len(zip) : ZipLoaded(c)
    \/ \E c \in 1..Len(zip) : ZipExtracted(c)
    \/ \E c \in 1..Len(zip) : ZipBatchDone(c)
    \/ \E c \in 1..Len(zip) : ZipYielded(c)

SpecZip == InitZip /\ [][NextZip]_vars

\* ---------------------------------------------------- App: the upload flow

\* Most files handed to the App in one behaviour
MaxUploads == 2

\* A string state value that is truthy: neither null nor ''.
truthy(content) == content # Null /\ content[1] # <<>>

\* The Map of a handler as parseChat reads it: file name -> Blob.
tableOf(map) ==
    [n \in {map[k].name : k \in 1..Len(map)} |->
        map[CHOOSE k \in 1..Len(map) : map[k].name = n].blob]

\* blob.text() of a Blob of an archive entry
blobText(blob) == blob.text

\* The messages whose attachment the App shows inline, each with an
\* <img src={createObjectUrl(message.attachment.blob)}> (lines 129, 230-239,
\* 320-328): the image attachments of the chat that is shown.
imagesShown(a) ==
    IF truthy(a.chatContent) /\ ~a.isProcessing
    THEN {k \in 1..Len(a.messages) :
             a.messages[k].attachment # Null /\ a.messages[k].attachment[1].type = "image"}
    ELSE {}

\* The URLs URL.createObjectURL returns for n blobs.
newUrls(n) == (urlSeq + 1)..(urlSeq + n)

\* The App renders with state a: createObjectUrl (useObjectUrls lines 9-13)
\* is called for every image shown; ref and store are urlsRef.current and
\* the browser's URLs before the render.
Render(a, ref, store) ==
    LET n == Cardinality(imagesShown(a))
    IN  /\ urlSeq + n <= MaxUrls
        /\ app' = a
        /\ urlSeq' = urlSeq + n
        /\ urlsRef' = ref \cup newUrls(n)
        /\ blobUrls' = store \cup newUrls(n)
        /\ UNCHANGED urls

\* No parseChat call is on the stack: a handler or a continuation can run.
NoParse == pc = "idle"

\* Chat files and archives handed to the App.
PhotoChat == Entry(<<"W", "h", "a", "t", "s", "A", "p", "p", " ", "C", "h", "a", "t", " ", "w", "i", "t", "h", " ", "A", "n", "n", ".", "t", "x", "t">>, <<"1", "/", "2", "/", "2", "4", ",", " ", "1", "0", ":", "3", "0", " ", "A", "M", " ", "-", " ", "A", "n", "n", ":", " ", "I", "M", "G", "-", "1", ".", "j", "p", "g", " ", "(", "f", "i", "l", "e", " ", "a", "t", "t", "a", "c", "h", "e", "d", ")">>)
PlainChat == Entry(<<"_", "c", "h", "a", "t", ".", "t", "x", "t">>, <<"1", "/", "2", "/", "2", "4", ",", " ", "1", "0", ":", "3", "1", " ", "A", "M", " ", "-", " ", "B", "o", "b", ":", " ", "y", "o">>)

AppFiles ==
    { Archive(<<"a", "n", "n", ".", "z", "i", "p">>, 1000, NineDirs \o <<ImageEntry, PhotoChat>>),
      Archive(<<"b", "o", "b", ".", "z", "i", "p">>, 1000, <<PlainChat>>),
      Archive(<<"n", "o", "c", "h", "a", "t", ".", "z", "i", "p">>, 1000, <<ImageEntry>>),
      Archive(<<"n", "o", "t", "e", "s", ".", "t", "x", "t">>, 1000, <<>>) }

InitApp ==
    /\ UploadIdle
    /\ ZipIdle
    /\ HookIdle
    /\ UrlIdle
    /\ files = <<>>
    /\ ParseIdle
    /\ ResolveIdle
    /\ HelperIdle

\* The invocations of handleFileUpload that have not run to their end.
inFlight == {u \in 1..Len(uploads) : uploads[u].pc \in {"loading", "reading", "parsing"}}

\* An invocation for a file: its position, the handler it made (0: none),
\* its chatText and parsedMessages once it has them, and the invocations
\* that were in flight when it began.
invocation(file, at, h) ==
    [file |-> file, pc |-> at, handler |-> h, chatText |-> Null, parsedMessages |-> <<>>,
     startedWhile |-> inFlight]

\* handleFileUpload up to its first await (lines 32-48), for a file chosen
\* with the input of line 182, which is shown while there is no chat
\* (line 129) and enabled while isUploading is false (line 185).
FileChosen ==
    /\ NoParse
    /\ ~truthy(app.chatContent)
    /\ ~app.isUploading
    /\ Len(uploads) < MaxUploads
    /\ \E file \in AppFiles :
          IF ~endsWith(toLowerCase(file.name), <<".", "z", "i", "p">>)
          THEN /\ Render([app EXCEPT !.error = Some(<<"P", "l", "e", "a", "s", "e", " ", "u", "p", "l", "o", "a", "d", " ", "a", " ", "Z", "I", "P", " ", "f", "i", "l", "e">>)], urlsRef, blobUrls)
               /\ uploads' = Append(uploads, invocation(file, "returned", 0))
               /\ UNCHANGED zip
          ELSE /\ Render([app EXCEPT !.isUploading = TRUE, !.isProcessing = FALSE, !.error = Null],
                         urlsRef, blobUrls)
               /\ zip' = Append(zip, called(file))
               /\ uploads' = Append(uploads, invocation(file, "loading", Len(zip) + 1))
    /\ UNCHANGED <<hookVars, files, parseVars, resolveVars, helperVars>>

\* A step of a loadZipFile call of an upload.
Extraction ==
    /\ NoParse
    /\ \E c \in 1..Len(zip) :
          \/ ZipLoaded(c)
          \/ ZipExtracted(c)
          \/ ZipBatchDone(c)
          \/ ZipYielded(c)

\* Lines 48-54 and 64-68: the await of loadZipFile returns or throws.
LoadSettled(u) ==
    /\ NoParse
    /\ uploads[u].pc = "loading"
    /\ LET z == zip[uploads[u].handler]
       IN  \/ /\ z.pc = "resolved"
              /\ Render([app EXCEPT !.isUploading = FALSE, !.isProcessing = TRUE], urlsRef, blobUrls)
              /\ uploads' = [uploads EXCEPT ![u].pc = "reading"]
           \/ /\ z.pc = "rejected"
              /\ Render([app EXCEPT !.error = z.error, !.isUploading = FALSE, !.isProcessing = FALSE],
                        urlsRef, blobUrls)
              /\ uploads' = [uploads EXCEPT ![u].pc = "failed"]
    /\ UNCHANGED <<zip, hookVars, files, parseVars, resolveVars, helperVars>>

\* Lines 54-57: the await of blob.text() returns and parseChat is called
\* with the text and the Map of the handler.
TextRead(u) ==
    /\ NoParse
    /\ uploads[u].pc = "reading"
    /\ LET z == zip[uploads[u].handler]
       IN  /\ chatContent' = blobText(z.result[1].chatFile.blob)
           /\ files' = tableOf(z.files)
    /\ pc' = "start"
    /\ uploads' = [uploads EXCEPT ![u].pc = "parsing"]
    /\ UNCHANGED <<lines, index, lastMessage, chatMessages, now>>
    /\ UNCHANGED <<zip, app, urlsRef, urlVars, hookVars, resolveVars, helperVars>>

\* Lines 57-62: parseChat has returned; the four state updates.
ParseReturned(u) ==
    /\ pc = "done"
    /\ uploads[u].pc = "parsing"
    /\ Render([app EXCEPT !.chatContent = Some(chatContent), !.messages = chatMessages,
                          !.zipHandler = Some(uploads[u].handler), !.isProcessing = FALSE],
              urlsRef, blobUrls)
    /\ uploads' = [uploads EXCEPT ![u].pc = "done", ![u].chatText = Some(chatContent),
                                   ![u].parsedMessages = chatMessages]
    /\ chatContent' = <<>> /\ files' = <<>> /\ lines' = <<>> /\ index' = 0
    /\ lastMessage' = Null /\ chatMessages' = <<>> /\ pc' = "idle"
    /\ UNCHANGED <<now, zip, hookVars, resolveVars, helperVars>>

\* An attachment is clicked (lines 325, 338, 353).
AttachmentSelected ==
    /\ NoParse
    /\ truthy(app.chatContent) /\ ~app.isProcessing
    /\ \E k \in 1..Len(app.messages) :
          /\ app.messages[k].attachment # Null
          /\ app.selectedAttachment # app.messages[k].attachment
          /\ Render([app EXCEPT !.selectedAttachment = app.messages[k].attachment], urlsRef, blobUrls)
    /\ UNCHANGED <<uploads, zip, hookVars, files, parseVars, resolveVars, helperVars>>

\* The AttachmentViewer is closed (line 432).
AttachmentClosed ==
    /\ NoParse
    /\ app.selectedAttachment # Null
    /\ Render([app EXCEPT !.selectedAttachment = Null], urlsRef, blobUrls)
    /\ UNCHANGED <<uploads, zip, hookVars, files, parseVars, resolveVars, helperVars>>

\* ZipHandler.cleanup() (zipHandler.js lines 132-135) on the handler the App
\* holds, if any.
cleanedUp(handlers, held) ==
    IF held = Null THEN handlers ELSE [handlers EXCEPT ![held[1]].files = <<>>]

\* handleReset (lines 96-108), with cleanup of useObjectUrls (lines 22-25),
\* from the button shown with a chat (lines 415-417).
handleReset ==
    /\ NoParse
    /\ truthy(app.chatContent)
    /\ Render(AppMounted, {}, blobUrls \ urlsRef)
    /\ zip' = cleanedUp(zip, app.zipHandler)
    /\ UNCHANGED <<uploads, hookVars, files, parseVars, resolveVars, helperVars>>

\* parseChat runs to its end within the continuation that called it.
Parsing ==
    \/ Start
    \/ ProcessLine
    \/ Finish

NextApp ==
    \/ FileChosen
    \/ Extraction
    \/ \E u \in 1..Len(uploads) : LoadSettled(u)
    \/ \E u \in 1..Len(uploads) : TextRead(u)
    \/ Parsing
    \/ \E u \in 1..Len(uploads) : ParseReturned(u)
    \/ AttachmentSelected
    \/ AttachmentClosed
    \/ handleReset

SpecApp == InitApp /\ [][NextApp]_vars

\* ------------------------------------------- useZipUpload and ZipUploader

\* Most files handed to the ZipUploader in one behaviour
MaxDrops == 2

DropFiles ==
    { Archive(<<"b", "o", "b", ".", "z", "i", "p">>, 1000, <<PlainChat, ImageEntry>>),
      Archive(<<"n", "o", "c", "h", "a", "t", ".", "z", "i", "p">>, 1000, <<ImageEntry>>),
      Archive(<<"n", "o", "t", "e", "s", ".", "t", "x", "t">>, 1000, <<>>),
      Archive(<<"b", "i", "g", ".", "z", "i", "p">>, 500 * 1024 * 1024 + 1, <<PlainChat>>),
      [name |-> <<"p", "h", "o", "t", "o", ".", "z", "i", "p">>, size |-> 1000, readable |-> FALSE, entries |-> <<>>] }

InitHook ==
    /\ HookIdle
    /\ ZipIdle
    /\ UploadIdle
    /\ UrlIdle
    /\ files = <<>>
    /\ ParseIdle
    /\ ResolveIdle
    /\ HelperIdle

\* The handleFile invocations whose handleUpload call has not settled.
pendingUploads == {k \in 1..Len(handleFile) : handleFile[k].pc # "settled"}

\* Mutant of validated: isUploading is not set back to false.
validatedStillUploading(h) ==
    [h EXCEPT !.error = Null, !.result = Null, !.progress = 10,
              !.isUploading = TRUE, !.isProcessing = TRUE]

\* handleUpload lines 23-27 and 42-44: the state after the reset and the
\* validation.
validated(h) ==
    [h EXCEPT !.error = Null, !.result = Null, !.progress = 10,
              !.isUploading = FALSE, !.isProcessing = TRUE]

\* handleUpload lines 23-27 and 66-71: the state after the reset and the
\* catch block; lines 66-71 alone when the error comes after an await.
failed(h, msg) ==
    [h EXCEPT !.error = Some(msg), !.isUploading = FALSE, !.isProcessing = FALSE,
              !.progress = 0]

\* handleUpload lines 52-63: the state after blob.text() has returned.
succeeded(h, z, zipHandler) ==
    [h EXCEPT !.result = Some([chatContent |-> blobText(z.result[1].chatFile.blob),
                               files |-> z.result[1].files,
                               metadata |-> z.result[1].metadata,
                               zipHandler |-> zipHandler]),
              !.progress = 100, !.isProcessing = FALSE]

\* handleFile lines 29-40 after await handleUpload(file): handleUpload
\* catches every error itself (lines 66-71) and its promise resolves, so
\* the try block goes on to onUploadSuccess.
settledCall(call, outcome) ==
    [call EXCEPT !.pc = "settled", !.outcome = outcome, !.callback = "onUploadSuccess"]

\* A handleFile invocation: file, position, handler made (0: none), what
\* handleUpload ended with, the callback called, and whether another
\* invocation was pending during it.
handleFileCall(file, at, h) ==
    [file |-> file, pc |-> at, handler |-> h, outcome |-> "none", callback |-> "none",
     overlapped |-> pendingUploads # {}]

\* The pending invocations, when another one begins.
overlappedAll(calls) ==
    [k \in 1..Len(calls) |->
        IF calls[k].pc # "settled" THEN [calls[k] EXCEPT !.overlapped = TRUE] ELSE calls[k]]

\* handleDrop or handleFileSelect (ZipUploader lines 20-26, 58-66) with a
\* file: handleFile and handleUpload up to the first await (useZipUpload
\* lines 19-47), or to the end when the validation throws.
Dropped ==
    /\ Len(handleFile) < MaxDrops
    /\ \E file \in DropFiles :
          IF ~endsWith(toLowerCase(file.name), <<".", "z", "i", "p">>)
          THEN /\ hook' = failed([hook EXCEPT !.result = Null], <<"P", "l", "e", "a", "s", "e", " ", "s", "e", "l", "e", "c", "t", " ", "a", " ", "Z", "I", "P", " ", "f", "i", "l", "e">>)
               /\ handleFile' = Append(overlappedAll(handleFile),
                                       settledCall(handleFileCall(file, "called", 0), "error"))
               /\ UNCHANGED zip
          ELSE IF file.size > 500 * 1024 * 1024
          THEN /\ hook' = failed([hook EXCEPT !.result = Null], <<"F", "i", "l", "e", " ", "t", "o", "o", " ", "l", "a", "r", "g", "e", ".", " ", "M", "a", "x", "i", "m", "u", "m", " ", "s", "i", "z", "e", " ", "i", "s", " ", "5", "0", "0", "M", "B">>)
               /\ handleFile' = Append(overlappedAll(handleFile),
                                       settledCall(handleFileCall(file, "called", 0), "error"))
               /\ UNCHANGED zip
          ELSE /\ hook' = validated(hook)
               /\ zip' = Append(zip, called(file))
               /\ handleFile' = Append(overlappedAll(handleFile),
                                       handleFileCall(file, "loading", Len(zip) + 1))
    /\ UNCHANGED <<uploadVars, urlVars, files, parseVars, resolveVars, helperVars>>

\* A step of a loadZipFile call of the hook.
HookExtraction ==
    \E c \in 1..Len(zip) :
        \/ ZipLoaded(c)
        \/ ZipExtracted(c)
        \/ ZipBatchDone(c)
        \/ ZipYielded(c)

\* useZipUpload lines 47-49 and 66-71: the await of loadZipFile returns or
\* throws.
HookLoadSettled(k) ==
    /\ handleFile[k].pc = "loading"
    /\ LET z == zip[handleFile[k].handler]
       IN  \/ /\ z.pc = "resolved"
              /\ hook' = [hook EXCEPT !.progress = 50]
              /\ handleFile' = [handleFile EXCEPT ![k].pc = "reading"]
           \/ /\ z.pc = "rejected"
              /\ hook' = failed(hook, z.error[1])
              /\ handleFile' = [handleFile EXCEPT ![k] = settledCall(@, "error")]
    /\ UNCHANGED <<zip, uploadVars, urlVars, files, parseVars, resolveVars, helperVars>>

\* useZipUpload lines 52-63: the await of blob.text() returns.
HookTextRead(k) ==
    /\ handleFile[k].pc = "reading"
    /\ hook' = succeeded(hook, zip[handleFile[k].handler], handleFile[k].handler)
    /\ handleFile' = [handleFile EXCEPT ![k] = settledCall(@, "result")]
    /\ UNCHANGED <<zip, uploadVars, urlVars, files, parseVars, resolveVars, helperVars>>

\* handleRetry (ZipUploader lines 76-79: clearError, reset) or reset, from
\* the buttons shown with an error.
handleRetry ==
    /\ hook.error # Null
    /\ hook' = HookMounted
    /\ UNCHANGED <<handleFile, zip, uploadVars, urlVars, files, parseVars, resolveVars, helperVars>>

NextHook ==
    \/ Dropped
    \/ HookExtraction
    \/ \E k \in 1..Len(handleFile) : HookLoadSettled(k)
    \/ \E k \in 1..Len(handleFile) : HookTextRead(k)
    \/ handleRetry

SpecHook == InitHook /\ [][NextHook]_vars

\* ------------------------------------------- the input, read independently

Done == pc = "done"

\* The 1-based positions of the trimmed lines that match the header pattern.
headerLines == {k \in 1..Len(lines) : dateTimeMatch(lines[k]).ok}

\* The positions of the header lines from line i on, in input order.
RECURSIVE headersFrom(_)
headersFrom(i) ==
    IF i > Len(lines) THEN <<>>
    ELSE (IF dateTimeMatch(lines[i]).ok THEN <<i>> ELSE <<>>) \o headersFrom(i + 1)

\* The position of the last line before the header line after the k-th of
\* hs (or the last line).
bodyEnd(hs, k) == IF k < Len(hs) THEN hs[k + 1] - 1 ELSE Len(lines)

\* The lines a..b, each preceded by a line break.
RECURSIVE continuationText(_, _)
continuationText(a, b) ==
    IF a > b THEN <<>> ELSE <<"\n">> \o lines[a] \o continuationText(a + 1, b)

\* <rest> of the header line at position h, and the texts left and right
\* of the first colon of a <rest>.
restOf(h) == Trim(dateTimeMatch(lines[h]).content)
leftOfColon(rest) == Trim(SubSeq(rest, 1, indexOf(rest, ":")))
rightOfColon(rest) == Trim(From(rest, indexOf(rest, ":") + 2))

\* A body up to its first line break.
firstLineOf(body) == SubSeq(body, 1, RunUntil(body, 1, "\n"))

\* ----------------------------------------------------------------- claims

\* C1: parseChat returns exactly as many messages as there are trimmed input
\* lines that match the header pattern; while it runs, the messages pushed
\* plus the one being accumulated are as many as the header lines read so
\* far, so that every header line (also one among the continuation lines of
\* another message) starts a message and nothing else does.
C1_HeaderCount ==
    /\ Done => Len(chatMessages) = Cardinality(headerLines)
    /\ pc = "loop" =>
           Len(chatMessages) + (IF lastMessage # Null THEN 1 ELSE 0)
               = Cardinality({k \in headerLines : k <= index})

\* A header line, a continuation line and a second header line gave two
\* messages.
C1_Witness ==
    /\ Done
    /\ Len(lines) = 3
    /\ headerLines = {1, 3}
    /\ Len(chatMessages) = 2

\* C2: the body of an authored message is the body text of its header line
\* (the text right of the sender colon, a resolved attachment marker
\* removed) followed by every line up to the next header line, each
\* preceded by a line break, in input order, empty lines included; the
\* input "1/2/24, 10:30 AM - Alice: Hello\nWorld" gives one message with
\* sender "Alice" and body "Hello\nWorld".
C2_MultiLineBody ==
    Done =>
        /\ LET hs == headersFrom(1)
           IN  /\ Len(chatMessages) = Len(hs)
               /\ \A k \in 1..Len(chatMessages) :
                      chatMessages[k].type = "message" =>
                          chatMessages[k].message =
                              stripAttachment(rightOfColon(restOf(hs[k])),
                                              chatMessages[k].attachment)
                                  \o continuationText(hs[k] + 1, bodyEnd(hs, k))
        /\ chatContent = <<"1", "/", "2", "/", "2", "4", ",", " ", "1", "0", ":", "3", "0", " ", "A", "M", " ", "-", " ", "A", "l", "i", "c", "e", ":", " ", "H", "e", "l", "l", "o", "\n", "W", "o", "r", "l", "d">> =>
               /\ Len(chatMessages) = 1
               /\ chatMessages[1].sender = <<"A", "l", "i", "c", "e">>
               /\ chatMessages[1].message = <<"H", "e", "l", "l", "o", "\n", "W", "o", "r", "l", "d">>
               /\ chatMessages[1].type = "message"

\* An authored header line followed by an empty line and a text line.
C2_Witness ==
    /\ Done
    /\ chatContent = <<"1", "/", "2", "/", "2", "4", ",", " ", "1", "0", ":", "3", "0", " ", "A", "M", " ", "-", " ", "A", "l", "i", "c", "e", ":", " ", "H", "e", "l", "l", "o", "\n", "\n", "W", "o", "r", "l", "d">>
    /\ Len(chatMessages) = 1
    /\ chatMessages[1].message = <<"H", "e", "l", "l", "o", "\n", "\n", "W", "o", "r", "l", "d">>

\* The 0-based line index an id was built from.
idHasLine(id, i) == \E t \in 0..MaxNow : id = messageId(t, i)
lineIndexOf(msg) == CHOOSE i \in 0..(Len(lines) - 1) : idHasLine(msg.id, i)

\* C3: the messages come in the order of their header lines: every message
\* carries the date and time of the header line its id names, and the line
\* indices grow along the output, whatever the timestamps are.
C3_InputOrder ==
    Done =>
        /\ \A k \in 1..Len(chatMessages) :
               /\ \E i \in 0..(Len(lines) - 1) : idHasLine(chatMessages[k].id, i)
               /\ LET m == dateTimeMatch(lines[lineIndexOf(chatMessages[k]) + 1])
                  IN  m.ok /\ chatMessages[k].date = m.date /\ chatMessages[k].time = m.time
        /\ \A a, b \in 1..Len(chatMessages) :
               a < b => lineIndexOf(chatMessages[a]) < lineIndexOf(chatMessages[b])

\* Two messages whose timestamps are out of order, and before them one
\* whose timestamp is valid.
C3_Witness ==
    /\ Done
    /\ \E a, b \in 1..Len(chatMessages) :
           /\ a < b
           /\ chatMessages[a].timestamp # NaN
           /\ chatMessages[b].timestamp # NaN
           /\ chatMessages[a].timestamp[1] > chatMessages[b].timestamp[1]

\* C4: a header line whose <rest> has its first ":" at an index > 0 gives an
\* authored message, the sender being the trimmed text left of that colon
\* and the body (before any continuation line) the trimmed text right of
\* it, a resolved attachment marker removed and later colons kept; a
\* <rest> with no colon, or with its first colon at index 0, gives a system
\* message with sender "System" whose body starts with the whole <rest>.
C4_SenderSplit ==
    Done =>
        LET hs == headersFrom(1)
        IN  /\ Len(chatMessages) = Len(hs)
            /\ \A k \in 1..Len(chatMessages) :
                   LET msg  == chatMessages[k]
                       rest == restOf(hs[k])
                   IN  IF indexOf(rest, ":") > 0
                       THEN /\ msg.type = "message"
                            /\ msg.sender = leftOfColon(rest)
                            /\ firstLineOf(msg.message)
                                   = stripAttachment(rightOfColon(rest), msg.attachment)
                            /\ msg.attachment = Null =>
                                   firstLineOf(msg.message) = rightOfColon(rest)
                       ELSE /\ msg.type = "system"
                            /\ msg.sender = <<"S", "y", "s", "t", "e", "m">>
                            /\ firstLineOf(msg.message) = rest

\* An authored message whose body keeps a later colon was returned.
C4_Witness ==
    /\ Done
    /\ \E k \in 1..Len(chatMessages) :
           /\ chatMessages[k].type = "message"
           /\ chatMessages[k].sender = <<"B", "o", "b">>
           /\ chatMessages[k].message = <<"b", ":", " ", "c">>

\* A <rest> without a colon gave a system message.
C4_WitnessNoColon ==
    /\ Done
    /\ \E k \in 1..Len(chatMessages) :
           /\ chatMessages[k].sender = <<"S", "y", "s", "t", "e", "m">>
           /\ chatMessages[k].message = <<"B", "o", "b", " ", "j", "o", "i", "n", "e", "d", " ", "u", "s", "i", "n", "g", " ", "t", "h", "i", "s", " ", "g", "r", "o", "u", "p", "'", "s", " ", "i", "n", "v", "i", "t", "e", " ", "l", "i", "n", "k">>

\* A <rest> whose first colon is at index 0 gave a system message.
C4_WitnessColonZero ==
    /\ Done
    /\ \E k \in 1..Len(chatMessages) :
           /\ chatMessages[k].sender = <<"S", "y", "s", "t", "e", "m">>
           /\ chatMessages[k].message = <<":", " ", "x">>

SystemTypes ==
    {"joined", "left", "created", "name_changed", "description_changed",
     "icon_changed", "encryption", "ended", "other"}

\* A message is of exactly one kind.
oneKind(msg) ==
    \/ /\ msg.type = "message"
       /\ "systemType" \notin DOMAIN msg
    \/ /\ msg.type = "system"
       /\ msg.sender = <<"S", "y", "s", "t", "e", "m">>
       /\ "systemType" \in DOMAIN msg
       /\ msg.systemType \in SystemTypes
       /\ msg.attachment = Null

\* C5: every message, returned or being accumulated, is either authored
\* (type "message", no systemType) or a system message (type "system",
\* sender "System", a systemType of the nine categories, no attachment).
C5_ExactlyOneKind ==
    /\ \A k \in 1..Len(chatMessages) : oneKind(chatMessages[k])
    /\ lastMessage # Null => oneKind(lastMessage[1])

\* A system message was returned whose body holds an attachment marker that
\* names a file of the table.
C5_Witness ==
    /\ Done
    /\ \E k \in 1..Len(chatMessages) :
           /\ chatMessages[k].type = "system"
           /\ extractAttachment(chatMessages[k].message, files) # Null
           /\ chatMessages[k].attachment = Null

\* The body of the k-th message as the input gives it: the text right of
\* the sender colon and every continuation line.
reconstructedBody(hs, k) ==
    rightOfColon(restOf(hs[k])) \o continuationText(hs[k] + 1, bodyEnd(hs, k))

\* C6: for every authored message the resolver is applied to the body
\* reconstructed from the header line and its continuation lines: a marker
\* that only a continuation line holds and that names a file of the table
\* is resolved, its text is stripped from the body and the descriptor is
\* attached.
C6_ResolvedOnWholeBody ==
    Done =>
        LET hs == headersFrom(1)
        IN  \A k \in 1..Len(chatMessages) :
                LET msg  == chatMessages[k]
                    body == reconstructedBody(hs, k)
                IN  ( /\ msg.type = "message"
                      /\ extractAttachment(rightOfColon(restOf(hs[k])), files) = Null
                      /\ extractAttachment(body, files) # Null )
                    => /\ msg.attachment = extractAttachment(body, files)
                       /\ msg.message = stripAttachment(body, msg.attachment)

\* What parseChat returns for a marker on a continuation line: no
\* attachment, and the marker text is still in the body.
C6_MarkerLeftInBody ==
    /\ Done
    /\ \E k \in 1..Len(chatMessages) :
           /\ chatMessages[k].type = "message"
           /\ chatMessages[k].attachment = Null
           /\ chatMessages[k].message = <<"H", "e", "l", "l", "o", "\n", "<", "a", "t", "t", "a", "c", "h", "e", "d", ":", " ", "p", "h", "o", "t", "o", ".", "j", "p", "g", ">">>
           /\ <<"p", "h", "o", "t", "o", ".", "j", "p", "g">> \in DOMAIN files

\* C7: when the text holds an explicit <attached: NAME> marker and NAME is
\* no key of the table, extractAttachment returns null and the text is left
\* as it is, whatever other marker or file name the text holds.
C7_ExplicitMissYieldsNone ==
    ( /\ rpc = "returned"
      /\ attachedMatch(messageText).ok
      /\ Trim(attachedMatch(messageText).group1) \notin DOMAIN files )
    => /\ attachment = Null
       /\ finalMessageText = messageText

\* The part of C7 the code keeps: no other pattern matches the text.
C7_ExplicitMissAlone ==
    ( /\ rpc = "returned"
      /\ attachedMatch(messageText).ok
      /\ Trim(attachedMatch(messageText).group1) \notin DOMAIN files
      /\ ~fileAttachedMatch(messageText).ok
      /\ ~directFileMatch(messageText).ok )
    => /\ attachment = Null
       /\ finalMessageText = messageText

\* What extractAttachment returns for an explicit marker of a missing file
\* followed by the bare name of a file of the table.
C7_FallsThrough ==
    /\ rpc = "returned"
    /\ messageText = <<"<", "a", "t", "t", "a", "c", "h", "e", "d", ":", " ", "p", "h", "o", "t", "o", ".", "j", "p", "g", ">", " ", "I", "M", "G", "-", "1", ".", "j", "p", "g">>
    /\ <<"p", "h", "o", "t", "o", ".", "j", "p", "g">> \notin DOMAIN files
    /\ attachment # Null
    /\ attachment[1].filename = <<"I", "M", "G", "-", "1", ".", "j", "p", "g">>
    /\ finalMessageText = <<"<", "a", "t", "t", "a", "c", "h", "e", "d", ":", " ", "p", "h", "o", "t", "o", ".", "j", "p", "g", ">">>

\* The names the three patterns extract from a text.
candidateNames(text) ==
    LET m1 == attachedMatch(text)
        m2 == fileAttachedMatch(text)
        m3 == directFileMatch(text)
    IN  (IF m1.ok THEN {Trim(m1.group1)} ELSE {})
            \cup (IF m2.ok THEN {Trim(m2.group1)} ELSE {})
            \cup (IF m3.ok THEN {m3.group1} ELSE {})

\* C8: a returned message has an attachment only if a name extracted from
\* the text right of its sender colon is a key of the table; the filename
\* is then that key and the blob the value stored under it.  When no
\* extracted name is a key (the empty table included) the attachment is
\* null and the body is the text right of the colon, with its continuation
\* lines.
C8_OnlyTableKeys ==
    Done =>
        LET hs == headersFrom(1)
        IN  \A k \in 1..Len(chatMessages) :
                LET msg   == chatMessages[k]
                    att   == msg.attachment
                    names == candidateNames(rightOfColon(restOf(hs[k])))
                IN  /\ att # Null =>
                           /\ msg.type = "message"
                           /\ att[1].filename \in names \cap DOMAIN files
                           /\ att[1].blob = files[att[1].filename]
                    /\ (msg.type = "message" /\ names \cap DOMAIN files = {}) =>
                           /\ att = Null
                           /\ msg.message = reconstructedBody(hs, k)

\* A message was returned with the file of a bare name while the explicit
\* marker of its text names no key of the table.
C8_Witness ==
    /\ Done
    /\ <<"p", "h", "o", "t", "o", ".", "j", "p", "g">> \notin DOMAIN files
    /\ \E k \in 1..Len(chatMessages) :
           /\ chatMessages[k].attachment # Null
           /\ chatMessages[k].attachment[1].filename = <<"I", "M", "G", "-", "1", ".", "j", "p", "g">>
           /\ chatMessages[k].attachment[1].blob = "blob2"
           /\ chatMessages[k].message = <<"<", "a", "t", "t", "a", "c", "h", "e", "d", ":", " ", "p", "h", "o", "t", "o", ".", "j", "p", "g", ">">>

\* With the empty table a text with a marker was returned as it is.
C8_WitnessEmptyTable ==
    /\ Done
    /\ DOMAIN files = {}
    /\ \E k \in 1..Len(chatMessages) :
           /\ chatMessages[k].attachment = Null
           /\ chatMessages[k].message = <<"I", "M", "G", "-", "1", ".", "j", "p", "g", " ", "(", "f", "i", "l", "e", " ", "a", "t", "t", "a", "c", "h", "e", "d", ")">>

\* The k-th header line has no continuation line.
singleLine(hs, k) == bodyEnd(hs, k) = hs[k]

\* The file name a text names when the text is one marker of a file of the
\* table and nothing else; <<>> when it is no such text.  The three shapes:
\* <attached: NAME>, NAME (file attached) or NAME (image attached), and the
\* bare file name.
onlyMarkerName(text, table) ==
    LET m1 == attachedMatch(text)
        m2 == fileAttachedMatch(text)
        m3 == directFileMatch(text)
    IN  IF m1.ok /\ m1.whole = text /\ Trim(m1.group1) \in DOMAIN table
        THEN <<Trim(m1.group1)>>
        ELSE IF ~m1.ok /\ m2.ok /\ m2.whole = text /\ Trim(m2.group1) \in DOMAIN table
        THEN <<Trim(m2.group1)>>
        ELSE IF m3.ok /\ m3.whole = text /\ m3.group1 \in DOMAIN table
        THEN <<m3.group1>>
        ELSE <<>>

\* C9: an authored message of one line whose text is one resolvable marker
\* and nothing else is returned with an empty body; the originalText of its
\* attachment is the text that was removed, the filename the name the
\* marker holds.  The text "<attached: photo.jpg>" with photo.jpg in the
\* table gives filename "photo.jpg", type "image" and an empty body.
C9_MarkerRoundTrip ==
    Done =>
        LET hs == headersFrom(1)
        IN  \A k \in 1..Len(chatMessages) :
                LET msg  == chatMessages[k]
                    text == rightOfColon(restOf(hs[k]))
                    name == onlyMarkerName(text, files)
                IN  /\ (msg.type = "message" /\ singleLine(hs, k) /\ name # <<>>) =>
                           /\ msg.message = <<>>
                           /\ msg.attachment # Null
                           /\ msg.attachment[1].originalText = text
                           /\ msg.attachment[1].filename = name[1]
                           /\ msg.attachment[1].type = getFileType(name[1])
                           /\ msg.attachment[1].blob = files[name[1]]
                    /\ ( /\ msg.type = "message" /\ singleLine(hs, k)
                         /\ text = <<"<", "a", "t", "t", "a", "c", "h", "e", "d", ":", " ", "p", "h", "o", "t", "o", ".", "j", "p", "g", ">">>
                         /\ <<"p", "h", "o", "t", "o", ".", "j", "p", "g">> \in DOMAIN files ) =>
                           /\ msg.message = <<>>
                           /\ msg.attachment[1].filename = <<"p", "h", "o", "t", "o", ".", "j", "p", "g">>
                           /\ msg.attachment[1].type = "image"

\* A message of the explicit shape was returned with an empty body.
C9_Witness ==
    /\ Done
    /\ \E k \in 1..Len(chatMessages) :
           /\ chatMessages[k].message = <<>>
           /\ chatMessages[k].attachment # Null
           /\ chatMessages[k].attachment[1].originalText = <<"<", "a", "t", "t", "a", "c", "h", "e", "d", ":", " ", "p", "h", "o", "t", "o", ".", "j", "p", "g", ">">>
           /\ chatMessages[k].attachment[1].type = "image"

\* A message of the parenthetical shape was returned with an empty body.
C9_WitnessParenthetical ==
    /\ Done
    /\ \E k \in 1..Len(chatMessages) :
           /\ chatMessages[k].message = <<>>
           /\ chatMessages[k].attachment # Null
           /\ chatMessages[k].attachment[1].originalText = <<"I", "M", "G", "-", "1", ".", "j", "p", "g", " ", "(", "f", "i", "l", "e", " ", "a", "t", "t", "a", "c", "h", "e", "d", ")">>

\* A message of the bare shape was returned with an empty body.
C9_WitnessBare ==
    /\ Done
    /\ \E k \in 1..Len(chatMessages) :
           /\ chatMessages[k].message = <<>>
           /\ chatMessages[k].attachment # Null
           /\ chatMessages[k].attachment[1].originalText = <<"I", "M", "G", "-", "1", ".", "j", "p", "g">>

\* The three patterns on messageText, in priority order: whether each
\* matches, the name it extracts and the text it reports as originalText.
patternMatches ==
    LET m1 == attachedMatch(messageText)
        m2 == fileAttachedMatch(messageText)
        m3 == directFileMatch(messageText)
    IN  << [ok |-> m1.ok, name |-> Trim(m1.group1), text |-> m1.whole],
           [ok |-> m2.ok, name |-> Trim(m2.group1), text |-> m2.whole],
           [ok |-> m3.ok, name |-> m3.group1, text |-> m3.group1] >>

\* C10: when messageText matches more than one pattern and every matched
\* name is a key of the table, extractAttachment returns the one attachment
\* of the first matching pattern in the order explicit marker,
\* parenthetical marker, bare file name, and only the text of that pattern
\* is removed from the message text.
C10_PriorityOrder ==
    rpc = "returned" =>
        LET ms      == patternMatches
            matched == {i \in 1..3 : ms[i].ok}
        IN  ( /\ Cardinality(matched) >= 2
              /\ \A i \in matched : ms[i].name \in DOMAIN files )
            => LET top == ms[CHOOSE i \in matched : \A j \in matched : i <= j]
               IN  /\ attachment # Null
                   /\ attachment[1].filename = top.name
                   /\ attachment[1].originalText = top.text
                   /\ attachment[1].blob = files[top.name]
                   /\ finalMessageText = Trim(replaceFirst(messageText, top.text))

\* A text that matches the three patterns, each with a file of the table,
\* was resolved to the file of the explicit marker that comes last in it.
C10_Witness ==
    /\ rpc = "returned"
    /\ messageText = <<"I", "M", "G", "-", "1", ".", "j", "p", "g", " ", "(", "f", "i", "l", "e", " ", "a", "t", "t", "a", "c", "h", "e", "d", ")", " ", "<", "a", "t", "t", "a", "c", "h", "e", "d", ":", " ", "p", "h", "o", "t", "o", ".", "j", "p", "g", ">">>
    /\ {<<"I", "M", "G", "-", "1", ".", "j", "p", "g">>, <<"p", "h", "o", "t", "o", ".", "j", "p", "g">>} \subseteq DOMAIN files
    /\ attachment # Null
    /\ attachment[1].filename = <<"p", "h", "o", "t", "o", ".", "j", "p", "g">>
    /\ finalMessageText = <<"I", "M", "G", "-", "1", ".", "j", "p", "g", " ", "(", "f", "i", "l", "e", " ", "a", "t", "t", "a", "c", "h", "e", "d", ")">>

\* C11: no step of parseChat changes the file table: its keys and the
\* value under each key stay as the caller passed them, whether the call
\* returns or throws.
C11_FilesUnchanged == [][files' = files]_vars

\* A call returned a message with a file it found in a table of two files.
C11_Witness ==
    /\ Done
    /\ DOMAIN files = {<<"p", "h", "o", "t", "o", ".", "j", "p", "g">>, <<"I", "M", "G", "-", "1", ".", "j", "p", "g">>}
    /\ \E k \in 1..Len(chatMessages) : chatMessages[k].attachment # Null

\* A call failed, the table of two files still being there.
C11_WitnessFailed ==
    /\ pc = "failed"
    /\ DOMAIN files = {<<"p", "h", "o", "t", "o", ".", "j", "p", "g">>, <<"I", "M", "G", "-", "1", ".", "j", "p", "g">>}

\* The checks of the classification in their order: the category and the
\* lower-case phrases that select it.
SystemChecks ==
    << [category |-> "joined", phrases |-> {<<"j", "o", "i", "n", "e", "d">>, <<"a", "d", "d", "e", "d">>}],
       [category |-> "left", phrases |-> {<<"r", "e", "m", "o", "v", "e", "d">>, <<"l", "e", "f", "t">>}],
       [category |-> "created", phrases |-> {<<"c", "r", "e", "a", "t", "e", "d", " ", "g", "r", "o", "u", "p">>, <<"g", "r", "o", "u", "p", " ", "c", "r", "e", "a", "t", "e", "d">>}],
       [category |-> "name_changed",
        phrases |-> {<<"c", "h", "a", "n", "g", "e", "d", " ", "t", "h", "e", " ", "g", "r", "o", "u", "p", " ", "n", "a", "m", "e">>, <<"g", "r", "o", "u", "p", " ", "n", "a", "m", "e", " ", "c", "h", "a", "n", "g", "e", "d">>}],
       [category |-> "description_changed",
        phrases |-> {<<"c", "h", "a", "n", "g", "e", "d", " ", "g", "r", "o", "u", "p", " ", "d", "e", "s", "c", "r", "i", "p", "t", "i", "o", "n">>, <<"g", "r", "o", "u", "p", " ", "d", "e", "s", "c", "r", "i", "p", "t", "i", "o", "n", " ", "c", "h", "a", "n", "g", "e", "d">>}],
       [category |-> "icon_changed",
        phrases |-> {<<"c", "h", "a", "n", "g", "e", "d", " ", "t", "h", "i", "s", " ", "g", "r", "o", "u", "p", "'", "s", " ", "i", "c", "o", "n">>, <<"g", "r", "o", "u", "p", " ", "i", "c", "o", "n", " ", "c", "h", "a", "n", "g", "e", "d">>}],
       [category |-> "encryption",
        phrases |-> {<<"m", "e", "s", "s", "a", "g", "e", "s", " ", "a", "n", "d", " ", "c", "a", "l", "l", "s", " ", "a", "r", "e", " ", "e", "n", "d", "-", "t", "o", "-", "e", "n", "d", " ", "e", "n", "c", "r", "y", "p", "t", "e", "d">>}],
       [category |-> "ended", phrases |-> {<<"e", "n", "d", "e", "d">>, <<"d", "e", "l", "e", "t", "e", "d">>}] >>

\* The checks a text matches, whatever its case.
matchingChecks(text) ==
    {i \in 1..Len(SystemChecks) :
        \E ph \in SystemChecks[i].phrases : includes(toLowerCase(text), ph)}

\* C12: getSystemMessageType always returns a category: that of the first
\* check, in the order joined/added, removed/left, created, name changed,
\* description changed, icon changed, encryption, ended/deleted, of which
\* the text holds a phrase in any case, and "other" when it holds none;
\* "Bob joined using this group's invite link" gives "joined".
C12_FirstCheckWins ==
    mpc = "returned" /\ systemType # Null =>
        LET matching == matchingChecks(message)
        IN  /\ systemType[1] \in SystemTypes
            /\ matching = {} => systemType[1] = "other"
            /\ matching # {} =>
                   systemType[1] =
                       SystemChecks[CHOOSE i \in matching : \A j \in matching : i <= j].category
            /\ message = <<"B", "o", "b", " ", "j", "o", "i", "n", "e", "d", " ", "u", "s", "i", "n", "g", " ", "t", "h", "i", "s", " ", "g", "r", "o", "u", "p", "'", "s", " ", "i", "n", "v", "i", "t", "e", " ", "l", "i", "n", "k">> =>
                   systemType[1] = "joined"

\* A text with phrases of two categories, the later one first in the text
\* and in another case, got the earlier category.
C12_Witness ==
    /\ mpc = "returned"
    /\ message = <<"L", "e", "f", "t", " ", "A", "D", "D", "E", "D">>
    /\ systemType = Some("joined")

\* A text without any phrase got "other".
C12_WitnessOther ==
    /\ mpc = "returned"
    /\ message = <<"c", "r", "e", "a", "t", "e", "d", " ", "h", "e", "l", "l", "o">>
    /\ systemType = Some("other")

\* The header lines among the first n lines.
headersBefore(n) == {i \in 1..n : dateTimeMatch(lines[i]).ok}

\* C13: a call of parseChat throws only when chatContent is no string, never
\* because of a line: while it runs every line read so far has been taken
\* in (each header line has its message, pushed or still accumulated), and
\* once it has returned every header line has its message, the one whose
\* date and time are no valid instant with the timestamp NaN.
C13_NeverFailsOnLines ==
    /\ pc = "failed" => ~isString(chatContent)
    /\ pc = "loop" =>
           /\ isString(chatContent)
           /\ index <= Len(lines)
           /\ Len(chatMessages) + (IF lastMessage = Null THEN 0 ELSE 1)
                  = Cardinality(headersBefore(index))
    /\ Done =>
           LET hs == headersFrom(1)
           IN  /\ isString(chatContent)
               /\ Len(chatMessages) = Len(hs)
               /\ \A k \in 1..Len(chatMessages) :
                      /\ chatMessages[k].date = dateTimeMatch(lines[hs[k]]).date
                      /\ chatMessages[k].date = <<"1", "3", "/", "4", "0", "/", "2", "4">> =>
                             chatMessages[k].timestamp = NaN

\* A call returned the message of a header with an invalid date, between
\* two lines that are no headers.
C13_Witness ==
    /\ Done
    /\ lines = <<<<"W", "o", "r", "l", "d">>, <<"1", "3", "/", "4", "0", "/", "2", "4", ",", " ", "1", "0", ":", "3", "0", " ", "A", "M", " ", "-", " ", "C", "a", "r", "o", "l", ":", " ", "h", "i">>, <<"W", "o", "r", "l", "d">>>>
    /\ Len(chatMessages) = 1
    /\ chatMessages[1].sender = <<"C", "a", "r", "o", "l">>
    /\ chatMessages[1].timestamp = NaN

\* A call on a chatContent that is no string threw.
C13_WitnessFailed == pc = "failed" /\ chatContent = NotAString

\* A line of the header shape but for the am/pm marker: it is no header
\* line, and it is one once "AM" is put after the minutes of its time.
unmarkedHeader(line) ==
    /\ ~dateTimeMatch(line).ok
    /\ \E p \in 4..Len(line) :
           /\ line[p] \in Digit /\ line[p - 1] \in Digit /\ line[p - 2] = ":"
           /\ At(line, p + 1) \notin Digit
           /\ dateTimeMatch(SubSeq(line, 1, p) \o <<"A", "M">> \o From(line, p + 1)).ok

\* C14: a line "<date>, <H:MM> - <rest>" starts a message whether or not an
\* am/pm marker follows its time: the messages returned are as many as the
\* lines of that shape, with or without the marker.
C14_MarkerOptional ==
    Done =>
        Len(chatMessages) =
            Cardinality({i \in 1..Len(lines) :
                            dateTimeMatch(lines[i]).ok \/ unmarkedHeader(lines[i])})

\* What parseChat returns for a line with a 24-hour time after a message:
\* the line is in the body of that message.
C14_UnmarkedAppended ==
    /\ Done
    /\ Len(chatMessages) = 1
    /\ chatMessages[1].sender = <<"A", "l", "i", "c", "e">>
    /\ chatMessages[1].message = <<"H", "e", "l", "l", "o", "\n", "1", "/", "2", "/", "2", "4", ",", " ", "1", "0", ":", "3", "0", " ", "-", " ", "D", "a", "n", ":", " ", "2", "4", "h">>

\* What parseChat returns for such a line alone: nothing.
C14_UnmarkedDropped ==
    /\ Done
    /\ lines = << <<"1", "/", "2", "/", "2", "4", ",", " ", "1", "0", ":", "3", "0", " ", "-", " ", "D", "a", "n", ":", " ", "2", "4", "h">> >>
    /\ chatMessages = <<>>

\* A message without its id.
withoutId(msg) == [f \in DOMAIN msg \ {"id"} |-> msg[f]]

\* The message a header line gives, before any continuation line and but
\* for its id.
messageOfHeader(line) ==
    LET m == dateTimeMatch(line)
        content == Trim(m.content)
        colonIndex == indexOf(content, ":")
    IN  IF hasSender(colonIndex)
        THEN regularMessage(m, content, colonIndex, files)
        ELSE systemMessage(m, content)

\* C15: lines before the first header line that are no header lines are
\* dropped.  The messages returned are, ids aside, what the header lines
\* and the lines that follow each of them give: no message comes from a
\* leading line, no body holds one, and the result is that of the input
\* without its leading lines.
C15_LeadingLinesDropped ==
    Done =>
        LET hs == headersFrom(1)
        IN  /\ Len(chatMessages) = Len(hs)
            /\ \A k \in 1..Len(chatMessages) :
                   withoutId(chatMessages[k]) =
                       [messageOfHeader(lines[hs[k]]) EXCEPT
                           !.message = @ \o continuationText(hs[k] + 1, bodyEnd(hs, k))]

\* Two lines before the first header line were dropped.
C15_Witness ==
    /\ Done
    /\ lines = <<<<"W", "o", "r", "l", "d">>, <<"W", "o", "r", "l", "d">>, <<"1", "/", "2", "/", "2", "4", ",", " ", "1", "0", ":", "3", "0", " ", "A", "M", " ", "-", " ", "A", "l", "i", "c", "e", ":", " ", "H", "e", "l", "l", "o">>>>
    /\ Len(chatMessages) = 1
    /\ chatMessages[1].message = <<"H", "e", "l", "l", "o">>

\* An input without any header line gave no message.
C15_WitnessNoHeader ==
    /\ Done
    /\ lines = <<<<"W", "o", "r", "l", "d">>, <<"W", "o", "r", "l", "d">>>>
    /\ chatMessages = <<>>

\* C16: the messages of one call, the one still accumulated included, have
\* pairwise distinct ids.
C16_DistinctIds ==
    LET all == pushLast(chatMessages, IF pc = "done" THEN Null ELSE lastMessage)
    IN  \A a, b \in 1..Len(all) : a # b => all[a].id # all[b].id

\* Three messages were returned that were built at the same reading of the
\* clock.
C16_Witness ==
    /\ Done
    /\ Len(chatMessages) = 3
    /\ now = 0
    /\ chatMessages[1].id = <<"0", "-", "0">>
    /\ chatMessages[3].id = <<"0", "-", "2">>

\* ------------------------------------------------------- parsePollMessage

\* parsePollMessage has returned.
Returned == mpc = "returned"

\* C17: parsePollMessage returns a poll only when some line after the first
\* one, among the trimmed non-empty lines, has an option indicator.
C17_IndicatorAfterFirst ==
    (Returned /\ poll # Null) => hasOptionsAfterFirst(pollLines(message))

\* What parsePollMessage returns when the only option indicator is on the
\* first line and two later lines have the bare shape: a poll.
C17_IndicatorOnFirstLineOnly ==
    /\ Returned
    /\ message = <<"P", "o", "l", "l", ":", " ", "O", "p", "t", "i", "o", "n", ":", " ", "l", "u", "n", "c", "h", "\n", "R", "a", "m", "e", "n", " ", "(", "1", "2", ")", "\n", "N", "a", "c", "h", "o", "s", " ", "(", "0", " ", "v", "o", "t", "e", "s", ")">>
    /\ poll = Some([title |-> <<"O", "p", "t", "i", "o", "n", ":", " ", "l", "u", "n", "c", "h">>,
                    options |-> << [text |-> <<"R", "a", "m", "e", "n">>, votes |-> 12],
                                   [text |-> <<"N", "a", "c", "h", "o", "s">>, votes |-> 0] >>,
                    totalVotes |-> 12,
                    maxVotes |-> 12])

\* C18: parsePollMessage returns none whenever fewer than 2 options are
\* extracted from the lines after the first one, and every poll it returns
\* has at least 2 options.
C18_AtLeastTwoOptions ==
    Returned =>
        /\ (isString(message) /\ Len(pollOptions(pollLines(message))) < 2) => poll = Null
        /\ poll # Null => Len(poll[1].options) >= 2

\* Three lines, a poll indicator on the first, an option indicator, and one
\* option only: none is returned.
C18_Witness ==
    /\ Returned
    /\ message = <<"P", "O", "L", "L", ":", " ", "L", "u", "n", "c", "h", "?", "\n", "O", "P", "T", "I", "O", "N", ":", " ", "P", "i", "z", "z", "a", " ", "(", "3", " ", "v", "o", "t", "e", "s", ")", "\n", "O", "p", "t", "i", "o", "n", ":", " ", "n", "o", "n", "e">>
    /\ Len(pollOptions(pollLines(message))) = 1
    /\ poll = Null

\* A poll of exactly two options is returned.
C18_WitnessTwo ==
    /\ Returned
    /\ poll # Null
    /\ Len(poll[1].options) = 2

\* The votes of the first k options, added up.
RECURSIVE votesUpTo(_, _)
votesUpTo(options, k) == IF k = 0 THEN 0 ELSE votesUpTo(options, k - 1) + options[k].votes

\* The vote counts of the options.
voteCounts(options) == {options[k].votes : k \in 1..Len(options)}

\* C19: in every poll returned, totalVotes is the sum of the options' votes;
\* maxVotes is the largest vote count when some option has a vote and 1 when
\* every option has 0 votes, so it is at least 1 and at least every
\* option's votes; Pizza (3 votes) and Sushi (1 vote) under 'POLL: Lunch?'
\* give totalVotes 4 and maxVotes 3.
C19_Aggregates ==
    (Returned /\ poll # Null) =>
        LET p == poll[1]
            counts == voteCounts(p.options)
        IN  /\ p.totalVotes = votesUpTo(p.options, Len(p.options))
            /\ (\E v \in counts : v > 0) =>
                   (p.maxVotes \in counts /\ \A v \in counts : v <= p.maxVotes)
            /\ counts = {0} => p.maxVotes = 1
            /\ p.maxVotes >= 1
            /\ \A v \in counts : p.maxVotes >= v
            /\ message = <<"P", "O", "L", "L", ":", " ", "L", "u", "n", "c", "h", "?", "\n", "O", "P", "T", "I", "O", "N", ":", " ", "P", "i", "z", "z", "a", " ", "(", "3", " ", "v", "o", "t", "e", "s", ")", "\n", "O", "P", "T", "I", "O", "N", ":", " ", "S", "u", "s", "h", "i", " ", "(", "1", " ", "v", "o", "t", "e", ")">> =>
                   (p.totalVotes = 4 /\ p.maxVotes = 3)

\* The poll of Pizza (3 votes) and Sushi (1 vote) is returned.
C19_Witness ==
    /\ Returned
    /\ message = <<"P", "O", "L", "L", ":", " ", "L", "u", "n", "c", "h", "?", "\n", "O", "P", "T", "I", "O", "N", ":", " ", "P", "i", "z", "z", "a", " ", "(", "3", " ", "v", "o", "t", "e", "s", ")", "\n", "O", "P", "T", "I", "O", "N", ":", " ", "S", "u", "s", "h", "i", " ", "(", "1", " ", "v", "o", "t", "e", ")">>
    /\ poll = Some([title |-> <<"L", "u", "n", "c", "h", "?">>,
                    options |-> << [text |-> <<"P", "i", "z", "z", "a">>, votes |-> 3],
                                   [text |-> <<"S", "u", "s", "h", "i">>, votes |-> 1] >>,
                    totalVotes |-> 4,
                    maxVotes |-> 3])

\* A poll whose options all have 0 votes is returned, with maxVotes 1.
C19_WitnessAllZero ==
    /\ Returned
    /\ poll # Null
    /\ voteCounts(poll[1].options) = {0}
    /\ poll[1].totalVotes = 0
    /\ poll[1].maxVotes = 1

\* The match of a line against the labelled pattern or, failing that, the
\* bare pattern.
optionMatchOf(line) ==
    LET match == optionRegexMatch(line)
    IN  IF match.ok THEN match ELSE simpleOptionMatch(line)

\* The lines after the first one that match one of the two patterns.
matchingLines(ls) == {k \in 2..Len(ls) : optionMatchOf(ls[k]).ok}

\* Those of them whose captured text is not blank.
linesWithText(ls) == {k \in matchingLines(ls) : Trim(optionMatchOf(ls[k]).group1) # <<>>}

\* The n-th smallest member of a set of line numbers.
nthOf(S, n) == CHOOSE k \in S : Cardinality({j \in S : j <= k}) = n

\* The option is read off the line: its text stands in the line, followed,
\* after white space if any, by "(" and the digits of its votes.
readOff(option, line) ==
    \E a \in 1..Len(line) :
        LET e == a + Len(option.text) - 1
        IN  /\ e <= Len(line)
            /\ SubSeq(line, a, e) = option.text
            /\ At(line, afterSpace(line, e)) = "("
            /\ countAfter(line, e) # <<>>
            /\ parseInt(countAfter(line, e)) = option.votes

\* The options are the lines of S, one each and in order.
optionsAre(options, ls, S) ==
    /\ Len(options) = Cardinality(S)
    /\ \A n \in 1..Len(options) :
           /\ options[n].text # <<>>
           /\ options[n].text = Trim(optionMatchOf(ls[nthOf(S, n)]).group1)
           /\ options[n].votes \in Nat
           /\ readOff(options[n], ls[nthOf(S, n)])

\* C20, as claimed: the options of a returned poll are the lines after the
\* first one that match the labelled pattern or, failing that, the bare
\* pattern, one option per matching line and in order, each with a
\* non-empty text and a non-negative integer vote count.
C20_OnePerMatchingLine ==
    (Returned /\ poll # Null) =>
        optionsAre(poll[1].options, pollLines(message), matchingLines(pollLines(message)))

\* C20, amended: the options of a returned poll are the lines after the
\* first one that match the labelled pattern or, failing that, the bare
\* pattern, and whose captured text is not blank: one option per such line
\* and in order, each with a non-empty text and a non-negative integer vote
\* count; a line that matches the labelled pattern with a blank text, a line
\* that matches neither pattern and the first line contribute nothing.
C20_OnePerLineWithText ==
    (Returned /\ poll # Null) =>
        optionsAre(poll[1].options, pollLines(message), linesWithText(pollLines(message)))

\* A poll is returned for a text with a labelled line of blank text, a
\* labelled option and a bare one: two options, in the order of the lines.
C20_Witness ==
    /\ Returned
    /\ message = <<"P", "O", "L", "L", ":", " ", "L", "u", "n", "c", "h", "?", "\n", "O", "p", "t", "i", "o", "n", ":", " ", " ", "(", "3", ")", "\n", "O", "P", "T", "I", "O", "N", ":", " ", "P", "i", "z", "z", "a", " ", "(", "3", " ", "v", "o", "t", "e", "s", ")", "\n", "N", "a", "c", "h", "o", "s", " ", "(", "0", " ", "v", "o", "t", "e", "s", ")">>
    /\ poll # Null
    /\ poll[1].options = << [text |-> <<"P", "i", "z", "z", "a">>, votes |-> 3], [text |-> <<"N", "a", "c", "h", "o", "s">>, votes |-> 0] >>

\* A poll is returned for a text whose first line has the bare shape: the
\* first line is no option of it.
C20_WitnessFirstLine ==
    /\ Returned
    /\ message = <<"P", "O", "L", "L", ":", " ", "T", "e", "a", " ", "(", "5", ")", "\n", "O", "P", "T", "I", "O", "N", ":", " ", "P", "i", "z", "z", "a", " ", "(", "3", " ", "v", "o", "t", "e", "s", ")", "\n", "N", "a", "c", "h", "o", "s", " ", "(", "0", " ", "v", "o", "t", "e", "s", ")">>
    /\ poll # Null
    /\ poll[1].options = << [text |-> <<"P", "i", "z", "z", "a">>, votes |-> 3], [text |-> <<"N", "a", "c", "h", "o", "s">>, votes |-> 0] >>

\* The text after the first occurrence of a 'POLL:'-style word in a line
\* that has one, trimmed.
afterPollWord(line) ==
    LET starts == {i \in 1..Len(line) : LitAt(line, i, <<"p", "o", "l", "l", ":">>)}
        i == CHOOSE x \in starts : \A y \in starts : x <= y
    IN  Trim(From(line, i + 5))

\* 'Poll' in place of an empty title.
orPlaceholder(t) == IF t = <<>> THEN <<"P", "o", "l", "l">> ELSE t

\* The titles the claim allows: with the prefix read as the start of the
\* first line, the rest of that line, and the second line when the first
\* one does not start with it; with the prefix read as a word anywhere in
\* the first line, the text after it; 'Poll' for an empty rest.
claimedTitles(ls) ==
    { IF LitAt(ls[1], 1, <<"p", "o", "l", "l", ":">>) THEN orPlaceholder(afterPollWord(ls[1])) ELSE ls[2] }
    \cup
    { IF hasPollPrefix(ls[1]) THEN orPlaceholder(afterPollWord(ls[1])) ELSE ls[2] }

\* C21: in a returned poll the title is the rest of the first line with the
\* 'POLL:'-style prefix removed when the first line carries that prefix, the
\* second non-empty line otherwise, and 'Poll' in place of an empty rest; it
\* is never empty.
C21_TitleWithoutPrefix ==
    (Returned /\ poll # Null) =>
        /\ poll[1].title # <<>>
        /\ poll[1].title \in claimedTitles(pollLines(message))

\* What parsePollMessage returns when the first line has a symbol before
\* the 'POLL:' word: the whole first line as the title, symbol and word
\* included.
C21_PrefixKept ==
    /\ Returned
    /\ message = <<ChartSymbol>> \o <<" ", "P", "O", "L", "L", ":", " ", "D", "i", "n", "n", "e", "r", "\n", "O", "P", "T", "I", "O", "N", ":", " ", "P", "i", "z", "z", "a", " ", "(", "3", " ", "v", "o", "t", "e", "s", ")", "\n", "O", "P", "T", "I", "O", "N", ":", " ", "S", "u", "s", "h", "i", " ", "(", "1", " ", "v", "o", "t", "e", ")">>
    /\ poll # Null
    /\ poll[1].title = <<ChartSymbol>> \o <<" ", "P", "O", "L", "L", ":", " ", "D", "i", "n", "n", "e", "r">>

\* What it returns when no 'POLL:' word follows the symbol: the second
\* line.
C21_SecondLineTitle ==
    /\ Returned
    /\ message = <<ChartSymbol>> \o <<" ", "L", "u", "n", "c", "h", " ", "(", "2", ")", "\n", "O", "P", "T", "I", "O", "N", ":", " ", "P", "i", "z", "z", "a", " ", "(", "3", " ", "v", "o", "t", "e", "s", ")", "\n", "O", "P", "T", "I", "O", "N", ":", " ", "S", "u", "s", "h", "i", " ", "(", "1", " ", "v", "o", "t", "e", ")">>
    /\ poll # Null
    /\ poll[1].title = <<"O", "P", "T", "I", "O", "N", ":", " ", "P", "i", "z", "z", "a", " ", "(", "3", " ", "v", "o", "t", "e", "s", ")">>

\* ------------------------------------------------------ formatMessageText

\* The positions of the hyperlinks in a formatted text.
anchorsOf(out) == {p \in 1..Len(out) : ExactAt(out, p, AnchorOpen)}

\* The href of the hyperlink at position p: up to the closing quote.
hrefAt(out, p) ==
    SubSeq(out, p + Len(AnchorOpen), nextAt(out, p + Len(AnchorOpen), <<"\"">>) - 1)

\* The visible text of the hyperlink at position p: between the opening tag
\* and the closing one.
linkTextAt(out, p) ==
    SubSeq(out, p + Len(AnchorOpen) + Len(hrefAt(out, p)) + Len(AnchorAttributes),
           nextAt(out, p, AnchorClose) - 1)

\* The text begins with a protocol.
hasProtocol(t) == ExactAt(t, 1, <<"h", "t", "t", "p", ":", "/", "/">>) \/ ExactAt(t, 1, <<"h", "t", "t", "p", "s", ":", "/", "/">>)

\* C22: every hyperlink of the formatted text has an href that begins with
\* 'http://' or 'https://': the href of a token without a protocol is the
\* token with 'https://' in front, the href of a token with a protocol is
\* the token, and the visible text is the token in both cases.
C22_HrefHasProtocol ==
    (Returned /\ formatted # Null) =>
        \A p \in anchorsOf(formatted[1]) :
            /\ hasProtocol(hrefAt(formatted[1], p))
            /\ hrefAt(formatted[1], p) =
                   IF hasProtocol(linkTextAt(formatted[1], p))
                   THEN linkTextAt(formatted[1], p)
                   ELSE <<"h", "t", "t", "p", "s", ":", "/", "/">> \o linkTextAt(formatted[1], p)

\* What formatMessageText returns for a bare domain that starts with the
\* letters http: a hyperlink whose href is the domain, without a protocol.
C22_BareDomainKept ==
    /\ Returned
    /\ message = <<"h", "t", "t", "p", "b", "i", "n", ".", "o", "r", "g">>
    /\ formatted # Null
    /\ anchorsOf(formatted[1]) = {1}
    /\ hrefAt(formatted[1], 1) = <<"h", "t", "t", "p", "b", "i", "n", ".", "o", "r", "g">>
    /\ linkTextAt(formatted[1], 1) = <<"h", "t", "t", "p", "b", "i", "n", ".", "o", "r", "g">>

\* What it returns for a token with www: the protocol is put in front.
C22_ProtocolAdded ==
    /\ Returned
    /\ message = <<"h", "i", " ", "w", "w", "w", ".", "c", ".", "n", "e", "t">>
    /\ formatted # Null
    /\ hrefAt(formatted[1], 4) = <<"h", "t", "t", "p", "s", ":", "/", "/", "w", "w", "w", ".", "c", ".", "n", "e", "t">>
    /\ linkTextAt(formatted[1], 4) = <<"w", "w", "w", ".", "c", ".", "n", "e", "t">>

\* ------------------------------------------------- parseChat: the sentinel

\* C30: in the output of parseChat a message has sender 'System' if and only
\* if it is a system message (type "system"): no authored message carries
\* the sentinel sender.
C30_SentinelIffSystem ==
    Done =>
        \A k \in 1..Len(chatMessages) :
            (chatMessages[k].sender = SystemSender) <=> (chatMessages[k].type = "system")

\* What parseChat returns for a line whose author is named System: an
\* authored message with the sender 'System'.
C30_AuthorNamedSystem ==
    /\ Done
    /\ lines = << <<"1", "/", "2", "/", "2", "4", ",", " ", "1", "0", ":", "3", "0", " ", "A", "M", " ", "-", " ", "S", "y", "s", "t", "e", "m", ":", " ", "h", "i">> >>
    /\ Len(chatMessages) = 1
    /\ chatMessages[1].type = "message"
    /\ chatMessages[1].sender = SystemSender
    /\ chatMessages[1].message = <<"h", "i">>

\* What it returns for a notice: a system message with that sender.
C30_Notice ==
    /\ Done
    /\ Len(chatMessages) = 1
    /\ chatMessages[1].type = "system"
    /\ chatMessages[1].sender = SystemSender

\* ------------------------------------------------------- ObjectURLManager

\* The URLs of the map are the URLs created and not yet revoked, one per
\* key.
trackedAreLive ==
    /\ mapValues(urls) = blobUrls
    /\ \A j, k \in DOMAIN urls : urls[j] = urls[k] => j = k

\* What the claim says of one call.
callsAsClaimed ==
    /\ \A key \in Keys :
           (createURL(key) /\ key \in DOMAIN urls) =>
               /\ urls[key] \notin blobUrls'
               /\ urls'[key] \in blobUrls' \ blobUrls
    /\ \A key \in Keys :
           (revokeURL(key) /\ key \notin DOMAIN urls) => UNCHANGED <<urls, blobUrls>>
    /\ revokeAll => (getCount' = 0 /\ blobUrls' = {})

\* C24: after any sequence of createURL, revokeURL and revokeAll calls the
\* URLs held in the map are exactly the URLs created and not yet revoked;
\* createURL on a tracked key revokes the old URL and stores a new one,
\* revokeURL on an unknown key changes nothing, and getCount() is 0 after
\* revokeAll.
C24_TrackedAreLive == []trackedAreLive /\ [][callsAsClaimed]_vars

\* Two keys are tracked after one of them was given a second URL: the first
\* URL is revoked, the other two are live.
C24_Witness ==
    /\ urlSeq = 3
    /\ DOMAIN urls = {"k1", "k2"}
    /\ urls["k1"] = 3
    /\ urls["k2"] = 2
    /\ blobUrls = {2, 3}

\* Every URL created has been revoked.
C24_WitnessAllRevoked ==
    /\ urlSeq = MaxUrls
    /\ getCount = 0
    /\ blobUrls = {}

\* ------------------------------------------------------------------ C25

\* A name that ends in .txt and contains chat or whatsapp, compared in
\* lower case.
chatNamed(name) ==
    /\ endsWith(toLowerCase(name), <<".", "t", "x", "t">>)
    /\ includes(toLowerCase(name), <<"c", "h", "a", "t">>) \/ includes(toLowerCase(name), <<"w", "h", "a", "t", "s", "a", "p", "p">>)

\* The entries of a file that extraction can produce: the entries of a
\* readable archive that are no directories and whose blob can be made.
extractable(file) ==
    IF file.readable
    THEN {k \in 1..Len(file.entries) : ~file.entries[k].dir /\ file.entries[k].ok}
    ELSE {}

acceptable(file) ==
    /\ endsWith(toLowerCase(file.name), <<".", "z", "i", "p">>)
    /\ file.size <= 500 * 1024 * 1024
    /\ \E k \in extractable(file) : chatNamed(file.entries[k].name)

resolvedAsClaimed(z) ==
    LET r == z.result[1]
    IN  /\ acceptable(z.file)
        /\ chatNamed(r.chatFile.name)
        /\ \E k \in 1..Len(r.files) :
               r.files[k].name = r.chatFile.name /\ r.files[k].blob = r.chatFile.blob
        /\ \A k \in 1..Len(r.files) :
               \E e \in extractable(z.file) : z.file.entries[e].name = r.files[k].name
        /\ r.metadata.totalFiles = Len(r.files)

rejectedAsClaimed(z) ==
    /\ ~acceptable(z.file)
    /\ z.result = Null
    /\ ExactAt(z.error[1], 1, <<"F", "a", "i", "l", "e", "d", " ", "t", "o", " ", "p", "r", "o", "c", "e", "s", "s", " ", "Z", "I", "P", " ", "f", "i", "l", "e", ":", " ">>)

\* C25: a loadZipFile call resolves only for a file whose name ends in .zip
\* (in any case), whose size is at most 500 MB and one of whose extracted
\* entries has a chat file name; the chatFile it resolves with is such an
\* entry of the returned files map, no directory entry is in that map, and
\* metadata.totalFiles is the size of the map. A call for any other file
\* rejects with a message that starts with 'Failed to process ZIP file: '.
C25_LoadZipFile ==
    \A c \in 1..Len(zip) :
        /\ zip[c].pc = "resolved" => resolvedAsClaimed(zip[c])
        /\ zip[c].pc = "rejected" => rejectedAsClaimed(zip[c])
        /\ zip[c].pc \notin {"resolved", "rejected"} => zip[c].result = Null /\ zip[c].error = Null

\* A call has resolved for an archive of two batches with directories.
C25_Witness ==
    \E c \in 1..Len(zip) :
        /\ zip[c].pc = "resolved"
        /\ Len(zip[c].file.entries) > batchSize
        /\ \E k \in 1..Len(zip[c].file.entries) : zip[c].file.entries[k].dir

\* A call has rejected after extraction because the only chat file of the
\* archive could not be extracted.
C25_WitnessRejected ==
    \E c \in 1..Len(zip) :
        /\ zip[c].pc = "rejected"
        /\ zip[c].i > 0
        /\ \E k \in 1..Len(zip[c].file.entries) : chatNamed(zip[c].file.entries[k].name)

\* ------------------------------------------------------------------ C23

\* The handler of upload u.
handlerOf(u) == zip[uploads[u].handler]

\* Every batch of the extraction of call z has completed: the loop has run
\* past the last entry, no blob is awaited, and every entry that can be
\* extracted is in the Map.
fullyExtracted(z) ==
    /\ z.pc = "resolved"
    /\ z.i >= Len(z.file.entries)
    /\ z.pending = {}
    /\ \A k \in extractable(z.file) :
           \E j \in 1..Len(z.files) :
               z.files[j].name = z.file.entries[k].name /\ z.files[j].blob.text = z.file.entries[k].text

parsedAfterExtraction ==
    \A u \in 1..Len(uploads) :
        uploads[u].pc = "parsing" =>
            /\ fullyExtracted(handlerOf(u))
            /\ files = tableOf(handlerOf(u).files)

tableKeptWhileParsing ==
    \A u \in 1..Len(uploads) :
        uploads[u].pc = "parsing" /\ uploads'[u].pc = "parsing" =>
            /\ files' = files
            /\ zip'[uploads[u].handler].files = handlerOf(u).files

\* C23: while parseChat runs for an upload, every extraction batch of that
\* upload has completed and the file table it was given is the full Map of
\* that upload's handler; no step between the start and the end of the call
\* adds, replaces or removes an entry of it, also while the archive of
\* another upload is being extracted.
C23_TableFullAndKept == []parsedAfterExtraction /\ [][tableKeptWhileParsing]_vars

\* parseChat is at work on the two-batch archive of one upload while another
\* upload is in the middle of its extraction.
C23_Witness ==
    \E u, v \in 1..Len(uploads) :
        /\ uploads[u].pc = "parsing" /\ pc = "loop" /\ index > 0
        /\ Len(handlerOf(u).file.entries) > batchSize
        /\ uploads[v].pc = "loading" /\ handlerOf(v).pc \in {"batch", "yield"}
        /\ handlerOf(v).files # <<>>

\* ------------------------------------------------------------------ C27

\* The second upload began while the first was in flight, and both have
\* loaded their chat.
bothLoaded ==
    /\ Len(uploads) = 2
    /\ uploads[2].startedWhile = {1}
    /\ uploads[1].pc = "done" /\ uploads[2].pc = "done"

holdsUpload(u) ==
    /\ app.chatContent = uploads[u].chatText
    /\ app.messages = uploads[u].parsedMessages
    /\ app.zipHandler = Some(uploads[u].handler)

\* C27: when a second upload is started while an earlier one is still in
\* flight, then at the step that ends the later of the two to finish the
\* App holds the chat content, messages and handler of the upload that was
\* started last.
C27_LastStartedWins == [][~bothLoaded /\ bothLoaded' => holdsUpload(2)']_vars

\* What the code does: the upload started first finishes last and the App
\* holds its chat.
C27_FirstStartedWins ==
    /\ bothLoaded
    /\ holdsUpload(1)
    /\ uploads[1].chatText # uploads[2].chatText

\* ------------------------------------------------------------------ C29

\* The messages of the loaded chat with an image or video attachment.
mediaMessages ==
    {k \in 1..Len(app.messages) :
        /\ app.messages[k].attachment # Null
        /\ app.messages[k].attachment[1].type \in {"image", "video"}}

\* C29: the object URLs created through useObjectUrls and not yet revoked
\* are never more than the messages of the loaded chat with an image or
\* video attachment, however often the list is rendered (and so none are
\* left after a reset).
C29_UrlsBounded == Cardinality(urlsRef) <= Cardinality(mediaMessages)

\* What the code does: a second render of a chat with one image has left
\* two live URLs for it.
C29_UrlPerRender ==
    /\ Cardinality(mediaMessages) = 1
    /\ Cardinality(urlsRef) = 2
    /\ urlsRef \subseteq blobUrls

\* ------------------------------------------------------------------ C26

\* C26: onUploadSuccess is called only for an upload that produced a
\* result, and an upload that failed (wrong extension, file too large,
\* unreadable archive, no chat file) gets onUploadError.
C26_CallbackMatchesOutcome ==
    \A k \in 1..Len(handleFile) :
        handleFile[k].pc = "settled" =>
            /\ handleFile[k].callback = "onUploadSuccess" => handleFile[k].outcome = "result"
            /\ handleFile[k].outcome = "error" => handleFile[k].callback = "onUploadError"

\* What the code does: an upload whose archive has no chat file has set the
\* error of the hook and onUploadSuccess has been called for it.
C26_SuccessAfterFailure ==
    \E k \in 1..Len(handleFile) :
        /\ handleFile[k].pc = "settled"
        /\ handleFile[k].outcome = "error"
        /\ handleFile[k].callback = "onUploadSuccess"
        /\ handleFile[k].handler # 0
        /\ hook.error # Null /\ hook.result = Null

\* ------------------------------------------------------------------ C28

flagsExclusive == ~(hook.isUploading /\ hook.isProcessing)

\* The hook right after a call has settled: as the claim has it.
settledAsClaimed(h, call) ==
    /\ ~h.isUploading /\ ~h.isProcessing
    /\ \/ call.outcome = "result" /\ h.result # Null /\ h.progress = 100 /\ h.error = Null
       \/ call.outcome = "error" /\ h.error # Null /\ h.progress = 0 /\ h.result = Null

\* The calls that settle in this step.
settling ==
    {k \in 1..Len(handleFile') :
        /\ handleFile'[k].pc = "settled"
        /\ k > Len(handleFile) \/ handleFile[k].pc # "settled"}

aloneSettlesAsClaimed ==
    \A k \in settling : ~handleFile'[k].overlapped => settledAsClaimed(hook', handleFile'[k])

\* C28: isUploading and isProcessing are never both true, and when a
\* handleUpload call that no other call overlapped settles, both flags are
\* false and exactly one of result and error is set: result with progress
\* 100 and no error on success, error with progress 0 and no result on
\* failure.
C28_FlagsAndOutcome == []flagsExclusive /\ [][aloneSettlesAsClaimed]_vars

\* A call alone has succeeded, and a second call, begun after it, has
\* failed after its extraction.
C28_Witness ==
    /\ Len(handleFile) = 2
    /\ \A k \in 1..2 : handleFile[k].pc = "settled" /\ ~handleFile[k].overlapped
    /\ handleFile[1].outcome = "result" /\ handleFile[2].outcome = "error"
    /\ handleFile[2].handler # 0
    /\ hook.error # Null /\ hook.progress = 0

\* A call alone has just succeeded.
C28_WitnessSuccess ==
    /\ Len(handleFile) = 1
    /\ handleFile[1].pc = "settled" /\ handleFile[1].outcome = "result"
    /\ hook.result # Null /\ hook.progress = 100
====
